---- MODULE Spec2Model ----
(***************************************************************************)
(* A model of the marathon package.                                        *)
(*                                                                         *)
(* combineboston.py, find_nonqualifier_start(df): the three-stage search   *)
(* for the position of the sorted runner sequence where the variance of    *)
(* the finish times changes most (specification Spec).                     *)
(* cleanboston.py: clean_bos2010 / clean_bos2001 followed by               *)
(* filter_runners (specification SpecClean).                               *)
(* wunderground.py: fetch_weather_page (specification SpecFetch).          *)
(* bosscraper2015.py, bosscraper2009.py: ScrapingEngine, its store, its    *)
(* scrape_all_by_lastname and its scrape_lastname_subset (specification    *)
(* SpecScrape).                                                            *)
(* combineboston.py: fill_in_missing_splits (specification SpecSplits).    *)
(* combineboston.py: find_same_runner (specification SpecMatch).           *)
(* combineboston.py: create_misc_home (specification SpecHome).            *)
(* combineboston.py, matching_estimators.py: get_wind_vector               *)
(* (specification SpecWind) and fetch_weather_features (specification     *)
(* SpecWeather).                                                           *)
(* marathonlib.py: time_to_minutes (specification SpecTime); its floats    *)
(* are IEEE 754 doubles with round-to-nearest-even.                        *)
(*                                                                         *)
(* A DataFrame is a sequence of rows; a row is a record of its columns.    *)
(* A finish time is the float64 of its minutes. The variances, their       *)
(* differences and the comparisons of find_nonqualifier_start are computed *)
(* in float64 as pandas (two-pass nanvar) and numpy compute them; the way  *)
(* numpy sums an array depends on the build and is a choice of the model.  *)
(*                                                                         *)
(* Each part of the package has its own variables and its own              *)
(* specification; the variables of the other parts stay idle in it.        *)
(***************************************************************************)
EXTENDS Integers, Sequences, FiniteSets, TLC

VARIABLES
    df,              \* the caller's DataFrame: rows [bib, offltime], in the caller's row order; offltime a float64
    summation,       \* the way the build sums a float64 array
    pc,              \* position in find_nonqualifier_start
    sorted_df,       \* the local sorted_df (row k of the sequence has index label k-1)
    max_var_runner,  \* the local max_var_runner (None before stage 1)
    calls,           \* the locals of each finished find_max_variance call, in call order
    result,          \* the returned bib (None until the function returns)
    error            \* the exception raised ("" when none)

VARIABLES
    raw_file,        \* batch_clean_*: the rows of the raw csv file: fields [bib, subgroup]
    raw_df,          \* batch_clean_*: the local raw_df, the frame pd.read_csv makes of the file
    clean_df,        \* batch_clean_*: the local clean_df
    clean_pc,        \* position in batch_clean_2010 / batch_clean_2001
    clean_error      \* the exception raised by the cleaning ("" when none)

VARIABLES
    fetch_params,   \* fetch_weather_page: the arguments location, month, day, year
    count,          \* fetch_weather_page: the local count
    success,        \* fetch_weather_page: the local success
    response,       \* fetch_weather_page: the local response (<<>> while unbound)
    http_requests,  \* the requests.get calls issued so far, each with its outcome
    fetch_pc,       \* position in fetch_weather_page
    fetch_result    \* the value fetch_weather_page returned (<<>> for None)

VARIABLES
    engine,         \* the module of the ScrapingEngine: "bosscraper2009" or "bosscraper2015"
    site,           \* the website: for each two-letter lastname query, the number of runners it matches
    collection,     \* the MongoDB collection: documents [id, content] in insertion order
    scrape_method,  \* the scrape method of the engine that is running ("" when none)
    subset_query,   \* scrape_lastname_subset: the arguments lastname and gender
    page_response,  \* the local r of the scrape method: the page last received (<<>> while unbound)
    max_reached,    \* scrape_all_by_lastname: the local max_reached
    total_runners,  \* scrape_all_by_lastname: the local total_runners
    c1,             \* scrape_all_by_lastname: the place of the loop variable c1 in the alphabet
    c2,             \* scrape_all_by_lastname: the place of the loop variable c2 in the alphabet
    start_record,   \* scrape_all_by_lastname: the loop variable start_record
    record_name,    \* scrape_all_by_lastname: the local record_name (<<>> while unbound)
    posted,         \* the requests posted to the website by the current run
    runs,           \* the number of scrape runs started
    report,         \* the list printed at the end of the run
    last_store,     \* the last call of the store: its id, and whether the id was present
    scrape_pc       \* position of the ScrapingEngine

VARIABLES
    split_input,       \* fill_in_missing_splits: the rows of the argument df when the function is called
    split_df,          \* fill_in_missing_splits: the rows of df (changed in place)
    runner_ix,         \* fill_in_missing_splits: the place of the next row of df.iterrows()
    next_known_split,  \* fill_in_missing_splits: the local next_known_split ("" while unbound)
    split_error,       \* the exception fill_in_missing_splits raised ("" when none)
    split_pc           \* position in fill_in_missing_splits

VARIABLES
    match_runner,     \* find_same_runner: the argument runner
    match_all,        \* find_same_runner: the argument df, a sequence of rows
    match_lastnames,  \* find_same_runner: the argument lastnames
    match_df,         \* find_same_runner: the local match_df
    found_runner,        \* the Series find_same_runner returned: <<>> when empty, else <<row>>
    match_pc          \* position in find_same_runner

VARIABLES
    home_input,  \* create_misc_home: the column 'home' of the argument df when the function is called
    home_df,     \* create_misc_home: the column 'home' of df (changed in place)
    misc_list,   \* create_misc_home: the local misc_list
    home_pc      \* position in create_misc_home

VARIABLES
    wind_copy,       \* get_wind_vector: the module whose copy of the function runs
    wind_kind,       \* get_wind_vector: the type of the argument windspeeds (list or Series)
    speed_strings,   \* get_wind_vector: the argument windspeeds, strings as character sequences
    winddirections,  \* get_wind_vector: the argument winddirections
    windspeeds,      \* get_wind_vector: the local windspeeds after get_weather_array
    east_winds,      \* get_wind_vector: the local east_winds
    north_winds,     \* get_wind_vector: the local north_winds
    wind_result,     \* get_wind_vector: the returned pair (empty until the function returns)
    wind_error,      \* get_wind_vector: the exception raised ("" when none)
    wind_pc          \* position in get_wind_vector

VARIABLES
    weather_copy,    \* fetch_weather_features: the module whose copy of the function runs
    weather_df,      \* the module's global weather_df: one row per weather observation
    marathon_name,   \* fetch_weather_features: the argument marathon_name
    weather_year,    \* fetch_weather_features: the argument year
    subset_df,       \* fetch_weather_features: the local subset_df
    weather_result,  \* fetch_weather_features: the returned tuple (empty until the function returns)
    weather_error,   \* fetch_weather_features: the exception raised ("" when none)
    weather_pc       \* position in fetch_weather_features

VARIABLES
    time_string,  \* time_to_minutes: the argument time_string
    units,        \* time_to_minutes: the local units
    unit_ix,      \* time_to_minutes: the number of units the loop has consumed
    minutes,      \* time_to_minutes: the local minutes
    time_result,  \* time_to_minutes: the returned value (empty until the function returns)
    time_error,   \* time_to_minutes: the exception raised ("" when none)
    time_pc       \* position in time_to_minutes

finder_vars == <<df, summation, pc, sorted_df, max_var_runner, calls, result, error>>
clean_vars  == <<raw_file, raw_df, clean_df, clean_pc, clean_error>>
fetch_vars == <<fetch_params, count, success, response, http_requests, fetch_pc, fetch_result>>
scrape_vars == <<engine, site, collection, scrape_method, subset_query, page_response, max_reached, total_runners, c1, c2, start_record, record_name, posted, runs, report, last_store, scrape_pc>>
splits_vars == <<split_input, split_df, runner_ix, next_known_split, split_error, split_pc>>
match_vars == <<match_runner, match_all, match_lastnames, match_df, found_runner, match_pc>>
home_vars == <<home_input, home_df, misc_list, home_pc>>
wind_vars == <<wind_copy, wind_kind, speed_strings, winddirections, windspeeds, east_winds, north_winds, wind_result, wind_error, wind_pc>>
weather_vars == <<weather_copy, weather_df, marathon_name, weather_year, subset_df, weather_result, weather_error, weather_pc>>
time_vars == <<time_string, units, unit_ix, minutes, time_result, time_error, time_pc>>

vars == <<finder_vars, clean_vars, fetch_vars, scrape_vars, splits_vars, match_vars, home_vars, wind_vars, weather_vars, time_vars>>

\* the variables a part of the package does not touch
not_finder == <<clean_vars, fetch_vars, scrape_vars, splits_vars, match_vars, home_vars, wind_vars, weather_vars, time_vars>>
not_clean  == <<finder_vars, fetch_vars, scrape_vars, splits_vars, match_vars, home_vars, wind_vars, weather_vars, time_vars>>
not_fetch == <<finder_vars, clean_vars, scrape_vars, splits_vars, match_vars, home_vars, wind_vars, weather_vars, time_vars>>
not_scrape == <<finder_vars, clean_vars, fetch_vars, splits_vars, match_vars, home_vars, wind_vars, weather_vars, time_vars>>
not_splits == <<finder_vars, clean_vars, fetch_vars, scrape_vars, match_vars, home_vars, wind_vars, weather_vars, time_vars>>
not_match == <<finder_vars, clean_vars, fetch_vars, scrape_vars, splits_vars, home_vars, wind_vars, weather_vars, time_vars>>
not_home == <<finder_vars, clean_vars, fetch_vars, scrape_vars, splits_vars, match_vars, wind_vars, weather_vars, time_vars>>
not_wind == <<finder_vars, clean_vars, fetch_vars, scrape_vars, splits_vars, match_vars, home_vars, weather_vars, time_vars>>
not_weather == <<finder_vars, clean_vars, fetch_vars, scrape_vars, splits_vars, match_vars, home_vars, wind_vars, time_vars>>
not_time == <<finder_vars, clean_vars, fetch_vars, scrape_vars, splits_vars, match_vars, home_vars, wind_vars, weather_vars>>

None == -1

-----------------------------------------------------------------------------
(* IEEE 754 doubles (binary64) in the normal range, rounded to nearest, ties *)
(* to even: NaN, zero, or (-1)^neg * (hi * 2^26 + lo) * 2^e with             *)
(* 2^26 <= hi < 2^27 and 0 <= lo < 2^26 (a mantissa of 53 bits in two        *)
(* halves that fit the model checker's 32-bit integers).                     *)

HalfWord == 2^26     \* the weight of hi in a mantissa
LimbBase == 2^13     \* a mantissa is four limbs of 13 bits when it is multiplied or divided

\* the element of a set of one element: The({f(v) : v \in {x}}) is f(x), with x
\* evaluated once, before f
The(S) == CHOOSE out \in S : TRUE

DoubleZero == [nan |-> FALSE, neg |-> FALSE, hi |-> 0, lo |-> 0, e |-> 0]
DoubleNaN  == [nan |-> TRUE, neg |-> FALSE, hi |-> 0, lo |-> 0, e |-> 0]

Double(neg, hi, lo, e) == [nan |-> FALSE, neg |-> neg, hi |-> hi, lo |-> lo, e |-> e]

\* the last step of every operation: the mantissa hi * 2^26 + lo of 53 bits, the
\* first bit dropped below it (guard) and whether a later dropped bit was
\* set (sticky); a tie goes to the even mantissa
RoundUp(neg, hi, lo, e, guard, sticky) ==
    IF ~(guard /\ (sticky \/ lo % 2 = 1)) THEN Double(neg, hi, lo, e)
    ELSE IF lo + 1 < HalfWord THEN Double(neg, hi, lo + 1, e)
    ELSE IF hi + 1 < 2 * HalfWord THEN Double(neg, hi + 1, 0, e)
    ELSE Double(neg, HalfWord, 0, e + 1)

\* the double of a mantissa of 53 + r bits, whi * 2^26 + wlo with
\* 2^(26 + r) <= whi < 2^(27 + r): its last r bits are dropped, the first of them
\* the guard
DropBits(neg, whi, wlo, e, r) ==
    RoundUp(neg, whi \div 2^r, ((whi % 2^r) * HalfWord + wlo) \div 2^r, e + r,
            (wlo % 2^r) >= 2^(r - 1), (wlo % 2^(r - 1)) # 0)

RECURSIVE RoundWide(_, _, _, _)
\* the double nearest to (-1)^neg * (whi * 2^26 + wlo) * 2^e for 0 <= whi < 2^31
\* and 0 <= wlo < 2^26. When bits were dropped below the integer its last bit
\* is set in their place, and the integer is then 2^54 at least, so that the
\* bit set is never the guard
RoundWide(neg, whi, wlo, e) ==
    IF whi >= 2 * HalfWord
    THEN DropBits(neg, whi, wlo, e, IF whi < 2^28 THEN 1 ELSE IF whi < 2^29 THEN 2
                                    ELSE IF whi < 2^30 THEN 3 ELSE 4)
    ELSE IF whi >= HalfWord THEN Double(neg, whi, wlo, e)
    ELSE IF whi = 0 /\ wlo = 0 THEN DoubleZero
    ELSE IF whi < 2^22
    THEN RoundWide(neg, whi * 2^4 + wlo \div 2^22, (wlo % 2^22) * 2^4, e - 4)
    ELSE RoundWide(neg, whi * 2 + wlo \div 2^25, (wlo % 2^25) * 2, e - 1)

\* the two words of a shifted mantissa; its last bit is set when a bit that is
\* set was shifted out (lost)
Jammed(whi, wlo, lost) == <<whi, IF lost /\ wlo % 2 = 0 THEN wlo + 1 ELSE wlo>>

\* whi * 2^26 + wlo shifted down by d bits
Shifted(whi, wlo, d) ==
    IF d = 0 THEN <<whi, wlo>>
    ELSE IF d <= 26
    THEN Jammed(whi \div 2^d, (whi % 2^d) * 2^(26 - d) + wlo \div 2^d, wlo % 2^d # 0)
    ELSE IF d <= 56
    THEN Jammed((whi \div 2^(d - 26)) \div HalfWord, (whi \div 2^(d - 26)) % HalfWord,
                whi % 2^(d - 26) # 0 \/ wlo # 0)
    ELSE <<0, 1>>

\* a mantissa times 8 (three more bits below it), shifted down by d bits
Aligned(x, d) == Shifted(x.hi * 8 + x.lo \div 2^23, (x.lo % 2^23) * 8, d)

\* a + b of two aligned mantissas, with the sign and the exponent given
AddMagnitudes(neg, a, b, e) ==
    RoundWide(neg, a[1] + b[1] + (a[2] + b[2]) \div HalfWord, (a[2] + b[2]) % HalfWord, e)

\* a - b of two aligned mantissas, a > b, with the sign and the exponent given
SubMagnitudes(neg, a, b, e) ==
    IF a[2] < b[2] THEN RoundWide(neg, a[1] - b[1] - 1, a[2] - b[2] + HalfWord, e)
    ELSE RoundWide(neg, a[1] - b[1], a[2] - b[2], e)

\* |x| < |y| for doubles that are not NaN
MagnitudeLess(x, y) ==
    IF y.hi = 0 THEN FALSE
    ELSE IF x.hi = 0 THEN TRUE
    ELSE IF x.e # y.e THEN x.e < y.e
    ELSE IF x.hi # y.hi THEN x.hi < y.hi
    ELSE x.lo < y.lo

\* x + y for |x| >= |y|, neither zero nor NaN
SumOfOrdered(x, y) ==
    IF x.neg = y.neg
    THEN AddMagnitudes(x.neg, Aligned(x, 0), Aligned(y, x.e - y.e), x.e - 3)
    ELSE IF MagnitudeLess(y, x)
    THEN SubMagnitudes(x.neg, Aligned(x, 0), Aligned(y, x.e - y.e), x.e - 3)
    ELSE DoubleZero

\* x + y
DoubleAdd(x, y) ==
    IF x.nan \/ y.nan THEN DoubleNaN
    ELSE IF x.hi = 0 THEN y
    ELSE IF y.hi = 0 THEN x
    ELSE IF MagnitudeLess(x, y) THEN SumOfOrdered(y, x)
    ELSE SumOfOrdered(x, y)

\* -x
DoubleNeg(x) == IF x.nan \/ x.hi = 0 THEN x ELSE [x EXCEPT !.neg = ~x.neg]

\* x - y
DoubleSub(x, y) == DoubleAdd(x, DoubleNeg(y))

\* x == y of floats: False whenever an operand is NaN
DoubleEq(x, y) ==
    /\ ~x.nan
    /\ ~y.nan
    /\ x.hi = y.hi
    /\ x.lo = y.lo
    /\ (x.hi = 0 \/ (x.e = y.e /\ x.neg = y.neg))

\* x > y of floats: False whenever an operand is NaN
DoubleGt(x, y) ==
    /\ ~x.nan
    /\ ~y.nan
    /\ IF x.neg THEN y.neg /\ MagnitudeLess(x, y)
       ELSE IF y.neg THEN TRUE
       ELSE MagnitudeLess(y, x)

RECURSIVE BitLength(_)
\* the number of bits of k >= 0
BitLength(k) == IF k = 0 THEN 0 ELSE 1 + BitLength(k \div 2)

RECURSIVE Carried(_, _)
\* the limbs of 13 bits of the sum of columns[i] * 2^(13 * (i - 1)) plus a carry
\* into the first column, the lowest limb first, no zero limb at the top
Carried(columns, carry) ==
    IF columns = <<>> /\ carry = 0 THEN <<>>
    ELSE The({The({IF rest = <<>> /\ t % LimbBase = 0 THEN <<>> ELSE <<t % LimbBase>> \o rest :
                       rest \in {Carried(IF columns = <<>> THEN <<>> ELSE Tail(columns),
                                         t \div LimbBase)}}) :
                  t \in {(IF columns = <<>> THEN 0 ELSE Head(columns)) + carry}})

\* the limb at place i of a limb sequence (0 above its length)
LimbAt(limbs, i) == IF i >= 1 /\ i <= Len(limbs) THEN limbs[i] ELSE 0

\* the double nearest to (-1)^neg * (the integer of a limb sequence) * 2^e, the
\* integer's bits beyond the first 56 dropped (inexact: bits were dropped below
\* the integer before; it is then 2^54 at least)
RoundLimbs(neg, limbs, e, inexact) ==
    IF limbs = <<>> THEN DoubleZero
    ELSE The({The({The({RoundWide(neg,
                                  v[2] \div 2^t[2] + v[3] * 2^(26 - t[2]),
                                  IF (inexact \/ v[1] % 2^t[2] # 0
                                         \/ \E i \in 1..t[1] : limbs[i] # 0) /\ wlo % 2 = 0
                                  THEN wlo + 1 ELSE wlo,
                                  e + 13 * t[1] + t[2]) :
                            wlo \in {v[1] \div 2^t[2] + (v[2] % 2^t[2]) * 2^(26 - t[2])}}) :
                       v \in {<<LimbAt(limbs, t[1] + 1) + LimbAt(limbs, t[1] + 2) * LimbBase,
                                LimbAt(limbs, t[1] + 3) + LimbAt(limbs, t[1] + 4) * LimbBase,
                                LimbAt(limbs, t[1] + 5) + LimbAt(limbs, t[1] + 6) * LimbBase>>}}) :
                  t \in {IF bits <= 56 THEN <<0, 0>>
                         ELSE <<(bits - 56) \div 13, (bits - 56) % 13>> :
                            bits \in {13 * (Len(limbs) - 1) + BitLength(limbs[Len(limbs)])}}})

\* the four limbs of a mantissa
Limbs(x) == <<x.lo % LimbBase, x.lo \div LimbBase, x.hi % LimbBase, x.hi \div LimbBase>>

RECURSIVE Words(_, _, _)
\* the words of 26 bits of the sum of sums[j] * 2^(26 * (j - 1)), j >= i, plus
\* a carry, the lowest word first; the last word takes what is left
Words(sums, i, carry) ==
    IF i = Len(sums) THEN <<sums[i] + carry>>
    ELSE <<(sums[i] + carry) % HalfWord>> \o Words(sums, i + 1, (sums[i] + carry) \div HalfWord)

\* the double nearest to (-1)^neg * P * 2^e for the four words w of P >= 2^104:
\* the 56 bits of P from bit 50 on are rounded, the lowest of them set when a
\* lower bit of P is
RoundWords(neg, w, e) ==
    RoundWide(neg, w[4] * 4 + w[3] \div 2^24,
              Jammed(0, (w[3] % 2^24) * 4 + w[2] \div 2^24, w[1] # 0 \/ w[2] % 2^24 # 0)[2],
              e + 50)

\* the double nearest to (-1)^neg * P * 2^e, P the sum of the seven columns
\* c[i] * 2^(13 * (i - 1)) of a product of two mantissas
RoundColumns(neg, c, e) ==
    RoundWords(neg, Words(<<c[1] + (c[2] % LimbBase) * LimbBase,
                            c[2] \div LimbBase + c[3] + (c[4] % LimbBase) * LimbBase,
                            c[4] \div LimbBase + c[5] + (c[6] % LimbBase) * LimbBase,
                            c[6] \div LimbBase + c[7]>>, 1, 0), e)

\* the columns of the product of two mantissas
Columns(a, b) ==
    <<a[1] * b[1],
      a[1] * b[2] + a[2] * b[1],
      a[1] * b[3] + a[2] * b[2] + a[3] * b[1],
      a[1] * b[4] + a[2] * b[3] + a[3] * b[2] + a[4] * b[1],
      a[2] * b[4] + a[3] * b[3] + a[4] * b[2],
      a[3] * b[4] + a[4] * b[3],
      a[4] * b[4]>>

\* x * y
DoubleMul(x, y) ==
    IF x.nan \/ y.nan THEN DoubleNaN
    ELSE IF x.hi = 0 \/ y.hi = 0 THEN DoubleZero
    ELSE RoundColumns(x.neg # y.neg, Columns(Limbs(x), Limbs(y)), x.e + y.e)

\* x * k of a double by an integer 0 <= k < 2^17
DoubleTimesInt(x, k) ==
    IF x.nan THEN DoubleNaN
    ELSE IF x.hi = 0 \/ k = 0 THEN DoubleZero
    ELSE The({RoundLimbs(x.neg, Carried(<<a[1] * k, a[2] * k, a[3] * k, a[4] * k>>, 0),
                         x.e, FALSE) :
                  a \in {Limbs(x)}})

RECURSIVE LimbsDivMod(_, _)
\* quotient (no zero limb dropped) and remainder of a limb sequence by 1 <= d < 2^17
LimbsDivMod(limbs, d) ==
    IF limbs = <<>> THEN [quot |-> <<>>, rem |-> 0]
    ELSE The({The({[quot |-> <<cur \div d>> \o above.quot, rem |-> cur % d] :
                       cur \in {above.rem * LimbBase + Head(limbs)}}) :
                  above \in {LimbsDivMod(Tail(limbs), d)}})

\* the double nearest to (the integer of a limb sequence) * 2^e / d for
\* 1 <= d < 2^17: the quotient is taken with 78 more bits
RoundQuotient(neg, limbs, d, e) ==
    The({RoundLimbs(neg, Carried(parts.quot, 0), e - 78, parts.rem # 0) :
             parts \in {LimbsDivMod(<<0, 0, 0, 0, 0, 0>> \o limbs, d)}})

\* x / k of a double by an integer 1 <= k < 2^17
DoubleDivInt(x, k) ==
    IF x.nan THEN DoubleNaN
    ELSE IF x.hi = 0 THEN DoubleZero
    ELSE RoundQuotient(x.neg, Limbs(x), k, x.e)

\* the float nearest to n / d for integers 0 <= n < 2^31 and 1 <= d < 2^17:
\* the float of a decimal literal or of a parsed decimal string
DoubleOfRatio(n, d) ==
    IF n = 0 THEN DoubleZero ELSE RoundQuotient(FALSE, Carried(<<n>>, 0), d, 0)

\* float(k) of an integer 0 <= k < 2^31
DoubleOfInt(k) == DoubleOfRatio(k, 1)

-----------------------------------------------------------------------------
(* numpy and pandas on float64: np.var of a column of a DataFrame.           *)

RECURSIVE AddEach(_, _, _, _, _)
\* the loop "res += a[i]" over the places first, first + stride, ... of an
\* array, many places in all: the first half of the additions, then the others
AddEach(res, a, first, stride, many) ==
    IF many = 0 THEN res
    ELSE IF many = 1 THEN DoubleAdd(res, a[first])
    ELSE The({AddEach(sum, a, first + stride * (many \div 2), stride, many - (many \div 2)) :
                  sum \in {AddEach(res, a, first, stride, many \div 2)}})

PW_BLOCKSIZE == 128    \* numpy sums blocks of at most 128 elements with 8 accumulators

RECURSIVE pairwise_sum(_, _, _)
\* numpy's pairwise summation of the n elements of a float64 array from the place
\* first on: a plain loop from 0.0 below 8 elements; up to PW_BLOCKSIZE elements
\* 8 accumulators r[0..7] that start as the first 8 elements and take every
\* eighth element each, added in pairs, then the last n % 8 elements; above
\* it the sum of the two parts of n2 = n / 2 - (n / 2) % 8 and n - n2 elements
pairwise_sum(a, first, n) ==
    IF n < 8 THEN AddEach(DoubleZero, a, first, 1, n)
    ELSE IF n <= PW_BLOCKSIZE
    THEN LET r == [j \in 1..8 |->
                      AddEach(a[first + j - 1], a, first + j + 7, 8, (n \div 8) - 1)]
         IN  AddEach(DoubleAdd(DoubleAdd(DoubleAdd(r[1], r[2]), DoubleAdd(r[3], r[4])),
                               DoubleAdd(DoubleAdd(r[5], r[6]), DoubleAdd(r[7], r[8]))),
                     a, first + n - (n % 8), 1, n % 8)
    ELSE LET n2   == (n \div 2) - ((n \div 2) % 8)
             part == [h \in 1..2 |-> pairwise_sum(a, IF h = 1 THEN first ELSE first + n2,
                                                     IF h = 1 THEN n2 ELSE n - n2)]
         IN  DoubleAdd(part[1], part[2])

\* the ways a build sums a float64 array: pairwise (numpy 1.9 and later), or one
\* element after the other (numpy before 1.9; bottleneck, which pandas calls
\* in place of its own nanvar when it is installed)
Summations == {"pairwise", "sequential"}

\* a.sum() of a float64 array: add.reduce from the identity 0.0
NpSum(a, how) ==
    IF how = "pairwise" THEN DoubleAdd(DoubleZero, pairwise_sum(a, 1, Len(a)))
    ELSE AddEach(DoubleZero, a, 1, 1, Len(a))

\* pandas' nanvar (ddof = 0) of a float64 array without NaN, of count > 0
\* elements: avg = values.sum() / count; sqr = (avg - values) ** 2;
\* sqr.sum() / count
nanvar(values, how) ==
    LET avg    == DoubleDivInt(NpSum(values, how), Len(values))
        Sqr(v) == DoubleMul(v, v)
        sqr    == [i \in 1..Len(values) |-> Sqr(DoubleSub(avg, values[i]))]
    IN  DoubleDivInt(NpSum(sqr, how), Len(values))

\* np.var(rows['offltime']): the population variance (ddof = 0) in float64,
\* NaN for an empty selection
NpVar(rows) ==
    IF Len(rows) = 0 THEN DoubleNaN
    ELSE nanvar([i \in 1..Len(rows) |-> rows[i].offltime], summation)

\* len(range(start, stop, step)) for step > 0
PyRangeLen(start, stop, step) ==
    IF stop <= start THEN 0 ELSE (stop - start + step - 1) \div step

\* range(start, stop, step) for step > 0, as a sequence
PyRange(start, stop, step) ==
    [k \in 1..PyRangeLen(start, stop, step) |-> start + (k - 1) * step]

\* x in range(start, stop)
InPyRange(x, start, stop) == start <= x /\ x < stop

\* (mutation of LocIsin: the rows selected by bib value, not by index label)
LocIsinByBib(frame, start, stop) ==
    LET Test(row) == InPyRange(row.bib, start, stop)
    IN  SelectSeq(frame, Test)

\* df.loc[df.index.isin(range(start, stop))]: the rows whose index label is in the range
LocIsin(frame, start, stop) ==
    LET Test(row) == InPyRange(row.ix, start, stop)
    IN  SelectSeq(frame, Test)

RECURSIVE PyMaxIxFrom(_, _, _)
\* the scan of max(values): cur is the place of the value kept so far; a later
\* value replaces it only when it compares greater
PyMaxIxFrom(values, cur, k) ==
    IF k > Len(values) THEN cur
    ELSE The({PyMaxIxFrom(values, kept, k + 1) :
                  kept \in {IF DoubleGt(values[k], values[cur]) THEN k ELSE cur}})

\* max(values) of a non-empty list, as the place of the object returned
PyMaxIx(values) == PyMaxIxFrom(values, 1, 2)

RECURSIVE PyIndexFrom(_, _, _)
\* values.index(values[m]): the first place holding that object or an equal value
PyIndexFrom(values, m, k) ==
    IF k = m \/ DoubleEq(values[k], values[m]) THEN k
    ELSE PyIndexFrom(values, m, k + 1)

RECURSIVE LastEqualFrom(_, _, _)
LastEqualFrom(values, m, k) ==
    IF k = m \/ DoubleEq(values[k], values[m]) THEN k
    ELSE LastEqualFrom(values, m, k - 1)

PyIndex(values, m) == PyIndexFrom(values, m, 1)

BibLess(a, b) == a.bib < b.bib

\* df.sort_values(by='bib'); reset_index(inplace=True): rows in ascending bib
\* order, relabelled 0..N-1 (ix), the old labels kept as the column 'index'
SortAndReset(frame) ==
    LET s == SortSeq(frame, BibLess)
    IN  [k \in 1..Len(s) |->
            [ix |-> k - 1, index |-> s[k].ix, bib |-> s[k].bib, offltime |-> s[k].offltime]]

-----------------------------------------------------------------------------
(* The constants of find_nonqualifier_start.                                *)

CoarseMargin == 500    \* index.min()+500 and index.max()-500
CoarseBin    == 500
MediumSpan   == 100    \* max_var_runner-100, max_var_runner+100
MediumBin    == 50
FineSpan     == 10     \* max_var_runner-10, max_var_runner+10
FineBin      == 1
MinVarWindow == 20     \* "Restricts minimum variance window"

-----------------------------------------------------------------------------
(* The nested functions of find_nonqualifier_start.                         *)

\* one pass of the loop of get_variance_differences
VarianceDifference(frame, runner, interval) ==
    LET runners_before == LocIsin(frame, runner - interval, runner)
        runners_after  == LocIsin(frame, runner, runner + interval)
    IN  DoubleSub(NpVar(runners_after), NpVar(runners_before))

RECURSIVE AppendDifferences(_, _, _, _)
\* the loop of get_variance_differences from the k-th runner on
AppendDifferences(frame, runners, interval, k) ==
    IF k > Len(runners) THEN <<>>
    ELSE <<VarianceDifference(frame, runners[k], interval)>>
             \o AppendDifferences(frame, runners, interval, k + 1)

\* differences = []; for runner in runners: differences.append(...)
get_variance_differences(frame, runners, interval) ==
    AppendDifferences(frame, runners, interval, 1)

\* (mutation of VarWindow: the floor of 20 forgotten)
VarWindowNoFloor(bin_size) == 2 * bin_size

\* var_window of find_max_variance
VarWindow(bin_size) ==
    IF 2 * bin_size < MinVarWindow THEN MinVarWindow ELSE 2 * bin_size

\* (mutation of Runners: end_ix taken as the last candidate)
RunnersInclusive(start_ix, end_ix, bin_size) == PyRange(start_ix, end_ix + 1, bin_size)

\* runners of find_max_variance
Runners(start_ix, end_ix, bin_size) == PyRange(start_ix, end_ix, bin_size)

\* (mutation of SelectMax: the last of the equal maxima taken)
SelectMaxLast(runners, differences) ==
    runners[LastEqualFrom(differences, PyMaxIx(differences), Len(differences))]

\* runners[differences.index(max(differences))] for a non-empty list
SelectMax(runners, differences) ==
    runners[PyIndex(differences, PyMaxIx(differences))]

\* find_max_variance: its locals, the value returned, and the exception
\* raised (max() of an empty list is a ValueError)
find_max_variance(frame, start_ix, end_ix, bin_size) ==
    LET runners     == Runners(start_ix, end_ix, bin_size)
        var_window  == VarWindow(bin_size)
    IN  The({[start_ix |-> start_ix, end_ix |-> end_ix, bin_size |-> bin_size,
              runners |-> runners, var_window |-> var_window, differences |-> differences,
              raised |-> IF Len(runners) = 0 THEN "ValueError" ELSE "",
              value |-> IF Len(runners) = 0 THEN None ELSE SelectMax(runners, differences)] :
                 differences \in {get_variance_differences(frame, runners, var_window)}})

-----------------------------------------------------------------------------
(* The inputs: DataFrames the caller can pass.                              *)

MaxBlocks == 4   \* record counts range over 500 * b + r, b <= MaxBlocks, r <= 2
MaxGap    == 2   \* bib numbers of neighbours differ by 1..MaxGap

Sizes == {0, 1} \cup {CoarseBin * b + r : b \in 1..MaxBlocks, r \in 0..2}

\* positions (in bib order) at which the runner population changes
SplitPoints == {520, 1000}

\* the float64 of the finish times (minutes) of the inputs
InputTimes ==
    [flat   |-> DoubleOfInt(180),
     level  |-> DoubleOfRatio(1282, 10),
     narrow |-> <<DoubleOfInt(175), DoubleOfInt(185)>>,
     wide   |-> <<DoubleOfInt(200), DoubleOfInt(280)>>,
     late   |-> DoubleOfInt(240),
     tenths |-> <<DoubleOfRatio(1282, 10), DoubleOfRatio(1304, 10),
                  DoubleOfRatio(1507, 10), DoubleOfRatio(1913, 10)>>]

\* finish time of the runner at position p (in bib order) for each shape of data:
\*   flat      every finish time 180 minutes
\*   level     every finish time 128.2 minutes (not a float64: sums of it round)
\*   split(K)  a narrow population around 180 (sigma 5) before position K, a wide
\*             and later one around 240 (sigma 40) from K on
\*   shift(K)  every time 180 before position K and 240 from K on
\*   tenths(K) times of 128.2 and 130.4 minutes before position K, of 150.7 and
\*             191.3 minutes from K on
ShapeTime(shape, p) ==
    CASE shape.kind = "flat"   -> InputTimes.flat
      [] shape.kind = "level"  -> InputTimes.level
      [] shape.kind = "split"  -> IF p < shape.k THEN InputTimes.narrow[(p % 2) + 1]
                                  ELSE InputTimes.wide[(p % 2) + 1]
      [] shape.kind = "shift"  -> IF p < shape.k THEN InputTimes.flat ELSE InputTimes.late
      [] shape.kind = "tenths" -> InputTimes.tenths[(IF p < shape.k THEN 1 ELSE 3) + (p % 2)]

Shapes == {[kind |-> "flat", k |-> 0], [kind |-> "shift", k |-> 525]}
            \cup {[kind |-> "split", k |-> k] : k \in SplitPoints}

\* the shapes of the inputs whose bibs have gaps or whose rows are not in bib order
GapShapes == {[kind |-> "flat", k |-> 0], [kind |-> "split", k |-> 520]}

\* the DataFrame of n runners whose bibs are 1, 1+gap, ... ; rows in ascending
\* bib order, or in descending bib order when reversed; index labels 0..n-1
Frame(n, gap, reversed, shape) ==
    [i \in 1..n |->
        LET p == IF reversed THEN n - i ELSE i - 1
        IN  [ix |-> i - 1, bib |-> 1 + gap * p, offltime |-> ShapeTime(shape, p)]]

\* record counts of the level shape: two records more than whole broad bins
LevelSizes == {CoarseBin * b + 2 : b \in 2..MaxBlocks}

\* the shapes whose finish times are tenths of a minute
TenthsShapes == {[kind |-> "level", k |-> 0], [kind |-> "tenths", k |-> 520]}

\* every size and shape of whole minutes with bibs 1..n in row order, every bib
\* gap and both row orders at the smallest size the broad search accepts, and
\* the shapes of tenths of a minute
Inputs ==
    {Frame(n, 1, FALSE, shape) : n \in Sizes, shape \in Shapes}
      \cup {Frame(2 * CoarseBin + 2, gap, reversed, shape) :
                gap \in 1..MaxGap, reversed \in BOOLEAN, shape \in GapShapes}
      \cup {Frame(n, 1, FALSE, shape) : n \in LevelSizes, shape \in TenthsShapes}

-----------------------------------------------------------------------------
(* find_nonqualifier_start, statement by statement.                         *)

\* the variables of find_nonqualifier_start while another part runs
FinderIdle ==
    /\ df = <<>>
    /\ summation = ""
    /\ pc = "idle"
    /\ sorted_df = <<>>
    /\ max_var_runner = None
    /\ calls = <<>>
    /\ result = None
    /\ error = ""

\* the variables of the cleaning while another part runs
CleanIdle ==
    /\ raw_file = <<>>
    /\ raw_df = <<>>
    /\ clean_df = <<>>
    /\ clean_pc = "idle"
    /\ clean_error = ""

\* the variables of the fetch part while another part runs
FetchIdle ==
    /\ fetch_params = <<>>
    /\ count = 0
    /\ success = FALSE
    /\ response = <<>>
    /\ http_requests = <<>>
    /\ fetch_pc = "idle"
    /\ fetch_result = <<>>

\* the variables of the scrape part while another part runs
ScrapeIdle ==
    /\ engine = ""
    /\ site = <<>>
    /\ collection = <<>>
    /\ scrape_method = ""
    /\ subset_query = <<>>
    /\ page_response = <<>>
    /\ max_reached = <<>>
    /\ total_runners = 0
    /\ c1 = 0
    /\ c2 = 0
    /\ start_record = 0
    /\ record_name = <<>>
    /\ posted = <<>>
    /\ runs = 0
    /\ report = <<>>
    /\ last_store = <<>>
    /\ scrape_pc = "idle"

\* the variables of the splits part while another part runs
SplitsIdle ==
    /\ split_input = <<>>
    /\ split_df = <<>>
    /\ runner_ix = 0
    /\ next_known_split = ""
    /\ split_error = ""
    /\ split_pc = "idle"

\* the variables of the match part while another part runs
MatchIdle ==
    /\ match_runner = <<>>
    /\ match_all = <<>>
    /\ match_lastnames = {}
    /\ match_df = <<>>
    /\ found_runner = <<>>
    /\ match_pc = "idle"

\* the variables of the home part while another part runs
HomeIdle ==
    /\ home_input = <<>>
    /\ home_df = <<>>
    /\ misc_list = {}
    /\ home_pc = "idle"

\* the variables of the wind part while another part runs
WindIdle ==
    /\ wind_copy = ""
    /\ wind_kind = ""
    /\ speed_strings = <<>>
    /\ winddirections = <<>>
    /\ windspeeds = <<>>
    /\ east_winds = <<>>
    /\ north_winds = <<>>
    /\ wind_result = <<>>
    /\ wind_error = ""
    /\ wind_pc = "idle"

\* the variables of the weather part while another part runs
WeatherIdle ==
    /\ weather_copy = ""
    /\ weather_df = <<>>
    /\ marathon_name = ""
    /\ weather_year = 0
    /\ subset_df = <<>>
    /\ weather_result = <<>>
    /\ weather_error = ""
    /\ weather_pc = "idle"

\* the variables of the time part while another part runs
TimeIdle ==
    /\ time_string = <<>>
    /\ units = <<>>
    /\ unit_ix = 0
    /\ minutes = <<>>
    /\ time_result = <<>>
    /\ time_error = ""
    /\ time_pc = "idle"

\* every part but the named one is idle
OthersIdle(part) ==
    /\ IF part = "finder" THEN TRUE ELSE FinderIdle
    /\ IF part = "clean" THEN TRUE ELSE CleanIdle
    /\ IF part = "fetch" THEN TRUE ELSE FetchIdle
    /\ IF part = "scrape" THEN TRUE ELSE ScrapeIdle
    /\ IF part = "splits" THEN TRUE ELSE SplitsIdle
    /\ IF part = "match" THEN TRUE ELSE MatchIdle
    /\ IF part = "home" THEN TRUE ELSE HomeIdle
    /\ IF part = "wind" THEN TRUE ELSE WindIdle
    /\ IF part = "weather" THEN TRUE ELSE WeatherIdle
    /\ IF part = "time" THEN TRUE ELSE TimeIdle

Init ==
    /\ df \in Inputs
    /\ summation \in Summations
    /\ pc = "sort"
    /\ sorted_df = <<>>
    /\ max_var_runner = None
    /\ calls = <<>>
    /\ result = None
    /\ error = ""
    /\ OthersIdle("finder")

\* (mutation of SortAndReindex: df.sort_values(by='bib', inplace=True), the
\* caller's frame sorted and relabelled)
SortInPlace ==
    /\ pc = "sort"
    /\ sorted_df' = SortAndReset(df)
    /\ df' = [k \in 1..Len(df) |->
                [ix |-> k - 1, bib |-> sorted_df'[k].bib,
                 offltime |-> sorted_df'[k].offltime]]
    /\ pc' = "stage1"
    /\ UNCHANGED <<summation, max_var_runner, calls, result, error>>
    /\ UNCHANGED not_finder

\* sorted_df = df.sort_values(by='bib'); sorted_df.reset_index(inplace=True)
SortAndReindex ==
    /\ pc = "sort"
    /\ sorted_df' = SortAndReset(df)
    /\ pc' = "stage1"
    /\ UNCHANGED <<df, summation, max_var_runner, calls, result, error>>
    /\ UNCHANGED not_finder

\* one call of find_max_variance and the assignment of its result
Search(start_ix, end_ix, bin_size, next) ==
    \E call \in {find_max_variance(sorted_df, start_ix, end_ix, bin_size)} :
        /\ calls' = Append(calls, call)
        /\ max_var_runner' = IF call.raised = "" THEN call.value ELSE max_var_runner
        /\ error' = call.raised
        /\ pc' = IF call.raised = "" THEN next ELSE "raised"
        /\ UNCHANGED <<df, summation, sorted_df, result>>
        /\ UNCHANGED not_finder

\* (mutation of Stage1: the margins of 500 forgotten)
Stage1NoMargin ==
    /\ pc = "stage1"
    /\ IF Len(sorted_df) = 0
       THEN /\ error' = "TypeError"
            /\ pc' = "raised"
            /\ UNCHANGED <<df, summation, sorted_df, max_var_runner, calls, result>>
            /\ UNCHANGED not_finder
       ELSE Search(0, Len(sorted_df) - 1, CoarseBin, "stage2")

\* the broad search; index.min() of an empty index is nan, and range(nan, ...)
\* is a TypeError
Stage1 ==
    /\ pc = "stage1"
    /\ IF Len(sorted_df) = 0
       THEN /\ error' = "TypeError"
            /\ pc' = "raised"
            /\ UNCHANGED <<df, summation, sorted_df, max_var_runner, calls, result>>
            /\ UNCHANGED not_finder
       ELSE Search(0 + CoarseMargin, (Len(sorted_df) - 1) - CoarseMargin, CoarseBin, "stage2")

\* (mutation of Stage2: twice the span searched on both sides of the broad result)
Stage2WideSpan ==
    /\ pc = "stage2"
    /\ Search(max_var_runner - 2 * MediumSpan, max_var_runner + 2 * MediumSpan, MediumBin, "stage3")

Stage2 ==
    /\ pc = "stage2"
    /\ Search(max_var_runner - MediumSpan, max_var_runner + MediumSpan, MediumBin, "stage3")

Stage3 ==
    /\ pc = "stage3"
    /\ Search(max_var_runner - FineSpan, max_var_runner + FineSpan, FineBin, "return")

\* (mutation of Return: the bib looked up in the caller's df, not in sorted_df)
ReturnFromUnsorted ==
    /\ pc = "return"
    /\ IF max_var_runner \in 0..(Len(df) - 1)
       THEN /\ result' = df[max_var_runner + 1].bib
            /\ pc' = "done"
            /\ error' = error
       ELSE /\ result' = result
            /\ pc' = "raised"
            /\ error' = "KeyError"
    /\ UNCHANGED <<df, summation, sorted_df, max_var_runner, calls>>
    /\ UNCHANGED not_finder

\* return sorted_df.loc[max_var_runner, 'bib']; a label that is not in the index
\* is a KeyError
Return ==
    /\ pc = "return"
    /\ IF max_var_runner \in 0..(Len(sorted_df) - 1)
       THEN /\ result' = sorted_df[max_var_runner + 1].bib
            /\ pc' = "done"
            /\ error' = error
       ELSE /\ result' = result
            /\ pc' = "raised"
            /\ error' = "KeyError"
    /\ UNCHANGED <<df, summation, sorted_df, max_var_runner, calls>>
    /\ UNCHANGED not_finder

Next == SortAndReindex \/ Stage1 \/ Stage2 \/ Stage3 \/ Return

Spec == Init /\ [][Next]_vars

-----------------------------------------------------------------------------
(* Properties of find_nonqualifier_start.                                   *)

N == Len(df)

Terminal == pc \in {"done", "raised"}

\* the smallest record count for which range(500, N-1-500, 500) is not empty
MinRecords == 2 * CoarseMargin + 2

\* at least one record, and every finish time the same
Flat == N >= 1 /\ \A i \in 1..N : df[i].offltime = df[1].offltime

Min2(a, b) == IF a < b THEN a ELSE b
Max2(a, b) == IF a > b THEN a ELSE b

\* the rows at positions lo..hi-1 of the sorted sequence that exist
PositionsOf(lo, hi) == SubSeq(sorted_df, Max2(lo, 0) + 1, Min2(hi, Len(sorted_df)))

\* variance of [p, p+w) minus variance of [p-w, p)
WindowScore(p, w) == DoubleSub(NpVar(PositionsOf(p, p + w)), NpVar(PositionsOf(p - w, p)))

\* the place of position p among the candidates of a call (0 when absent)
PlaceOf(c, p) ==
    IF \E j \in 1..Len(c.runners) : c.runners[j] = p
    THEN CHOOSE j \in 1..Len(c.runners) : c.runners[j] = p
    ELSE 0

\* the value of a call is a candidate no other candidate's score exceeds
ReturnsAMaximum(c) ==
    /\ c.raised = ""
    /\ PlaceOf(c, c.value) # 0
    /\ \A i \in 1..Len(c.runners) :
          ~DoubleGt(c.differences[i], c.differences[PlaceOf(c, c.value)])

\* C1 (as claimed): the stage-1 candidates are exactly the multiples of 500 from
\* 500 to N-501 inclusive, and stage 1 returns one of maximum variance delta.
C1_CandidatesUpToNminus501 ==
    Len(calls) >= 1 =>
        /\ {calls[1].runners[j] : j \in 1..Len(calls[1].runners)}
             = {p \in 0..N : p % 500 = 0 /\ 500 <= p /\ p <= N - 501}
        /\ ReturnsAMaximum(calls[1])

\* the window the claim assigns to a step
ClaimedWindow(step) == CASE step = 500 -> 1000 [] step = 50 -> 100 [] step = 1 -> 20

\* C2: every score of every stage is variance([p, p+w)) - variance([p-w, p)) with
\* w = max(2*step, 20) = 1000, 100, 20 for the steps 500, 50, 1, positions outside
\* 0..N-1 being absent from the windows.
C2_ScoreIsWindowVarianceDelta ==
    Terminal =>
        \A k \in 1..Len(calls) :
            LET c == calls[k]
            IN  /\ c.bin_size = <<500, 50, 1>>[k]
                /\ c.var_window = Max2(2 * c.bin_size, 20)
                /\ c.var_window = ClaimedWindow(c.bin_size)
                /\ Len(c.differences) = Len(c.runners)
                /\ \A j \in 1..Len(c.runners) :
                      DoubleEq(c.differences[j], WindowScore(c.runners[j], c.var_window))

\* C2 happens: a run scored all three stages, one candidate with a window that
\* reaches below position 0
C2_Witness ==
    /\ pc = "done"
    /\ Len(calls) = 3
    /\ calls[1].runners[1] - calls[1].var_window < 0
    /\ ~calls[1].differences[1].nan

\* C3 (as claimed): stage 2 scores p1-100, p1-50, p1, p1+50, p1+100 and stage 3
\* scores every position of p2-10..p2+10; each returns a maximum-delta candidate.
C3_SymmetricRefinement ==
    /\ Len(calls) >= 2 =>
          /\ calls[2].runners = [j \in 1..5 |-> calls[1].value - 100 + 50 * (j - 1)]
          /\ calls[2].var_window = 100
          /\ ReturnsAMaximum(calls[2])
    /\ Len(calls) >= 3 =>
          /\ calls[3].runners = [j \in 1..21 |-> calls[2].value - 10 + (j - 1)]
          /\ calls[3].var_window = 20
          /\ ReturnsAMaximum(calls[3])

\* C4: at every stage the candidate selected has the maximum delta and every
\* candidate scanned before it (every lower position) has a strictly smaller one.
C4_FirstMaximumWins ==
    \A k \in 1..Len(calls) :
        LET c == calls[k]
            m == PlaceOf(c, c.value)
        IN  c.raised = "" =>
              /\ ReturnsAMaximum(c)
              /\ \A i \in 1..Len(c.runners) :
                    c.runners[i] < c.value => DoubleGt(c.differences[m], c.differences[i])
              /\ \A i \in 1..(m - 1) : c.runners[i] < c.value

\* C4 happens: a stage where a later candidate shares the maximum delta with the
\* one selected and an earlier candidate has a smaller delta
C4_Witness ==
    \E k \in 1..Len(calls) :
        LET c == calls[k]
            m == PlaceOf(c, c.value)
        IN  /\ c.raised = ""
            /\ \E i \in (m + 1)..Len(c.runners) : DoubleEq(c.differences[i], c.differences[m])
            /\ \E i \in 1..(m - 1) : DoubleGt(c.differences[m], c.differences[i])

\* the claim's example: bibs 1..n in order, times around 180 (sigma 5) for the
\* first k bibs and around 240 (sigma 40) for the others
TwoPopulations(n, k) == Frame(n, 1, FALSE, [kind |-> "split", k |-> k])

\* C5 (as claimed): with N >= 2000 records, narrow times for bibs 1..K and wide,
\* later times for bibs K+1..N, K at least a broad window from both ends, the
\* result is within 30 of K ([970, 1030] for K = 1000).
C5_FindsThePopulationChange ==
    \A k \in SplitPoints :
        (/\ pc = "done"
         /\ N >= 2000
         /\ k >= 1000 /\ N - k >= 1000
         /\ df = TwoPopulations(N, k))
        => (k - 30 <= result /\ result <= k + 30)

\* C6 (as claimed): no input makes the function raise.
C6_NeverRaises == pc # "raised"

\* the bibs of the input
Bibs == {df[i].bib : i \in 1..N}

\* C6 (amended): an input of at least 1002 records never raises, the run stops only
\* by returning, and the value returned is a bib of the input; an input of fewer
\* records raises in the broad search.
C6_ReturnsFrom1002Records ==
    /\ N >= MinRecords => pc # "raised"
    /\ ~Terminal => pc \in {"sort", "stage1", "stage2", "stage3", "return"}
    /\ pc = "done" => result \in Bibs
    /\ (N < MinRecords /\ pc \notin {"sort", "stage1"}) => (pc = "raised" /\ result = None)

\* C6 (amended) happens: a run on at least 1002 records returned a bib
C6_Witness == pc = "done" /\ N >= MinRecords /\ result \in Bibs

\* C7 (as claimed): an input of fewer than about 1000 records ends in an
\* InsufficientDataError.
C7_InsufficientDataError ==
    (N < 1000 /\ Terminal) => (pc = "raised" /\ error = "InsufficientDataError")

\* C8: 1002 records is the smallest input for which stage 1 has a candidate, and
\* for it all three stages complete, every position selected is a position of the
\* sequence and the final lookup returns the bib at the selected position.
C8_MinimumSizeCompletes ==
    /\ Len(calls) >= 1 => (calls[1].runners # <<>> <=> N >= MinRecords)
    /\ N = MinRecords =>
          /\ pc # "raised"
          /\ \A k \in 1..Len(calls) :
                calls[k].raised = "" /\ calls[k].value \in 0..(N - 1)
          /\ pc = "done" =>
                /\ Len(calls) = 3
                /\ max_var_runner \in 0..(N - 1)
                /\ result = sorted_df[max_var_runner + 1].bib

\* C8 happens: a run on exactly 1002 records returned
C8_Witness == N = MinRecords /\ pc = "done" /\ Len(calls) = 3

\* C9 (as claimed): equal finish times never raise and end at a position that is
\* neither among the first 500 nor among the last 500.
C9_FlatStaysInInterior ==
    Flat =>
        /\ pc # "raised"
        /\ pc = "done" => (500 <= max_var_runner /\ max_var_runner <= N - 501)

\* C9 (amended): at least 1002 records with equal finish times never raise and end
\* at a position from 390 = 500 - 100 - 10 to N - 443, whose bib is returned; the
\* position can be among the first 500. Every run that returns ends in 390..N-443.
C9_FlatEndsFrom390 ==
    /\ (Flat /\ N >= MinRecords) =>
          /\ pc # "raised"
          /\ pc = "done" =>
                /\ 390 <= max_var_runner
                /\ max_var_runner <= N - 443
                /\ result = sorted_df[max_var_runner + 1].bib
    /\ pc = "done" => (390 <= max_var_runner /\ max_var_runner <= N - 443)

\* C9 (amended) happens: a run on equal finish times returned a position other
\* than the lowest, the variances of windows of 500 and of 1000 equal times
\* being rounded differently
C9_Witness ==
    /\ Flat
    /\ N >= MinRecords
    /\ pc = "done"
    /\ max_var_runner > 390
    /\ ~DoubleEq(calls[1].differences[1], calls[1].differences[2])

\* the input with its bibs replaced by their ranks 1..N (same finish times in
\* the same bib order, every gap 1)
Renumbered(frame) ==
    LET s == SortSeq(frame, BibLess)
    IN  [k \in 1..Len(s) |-> [ix |-> k - 1, bib |-> k, offltime |-> s[k].offltime]]

\* C11: the search works on positions of the ascending-bib order, not on bib
\* values: every stage of a run has the candidates, scores and selected position
\* it has on the input whose bibs are renumbered 1..N in the same order.
C11_PositionsNotBibValues ==
    Terminal =>
        \A k \in 1..Len(calls) :
            LET c == calls[k]
                d == find_max_variance(SortAndReset(Renumbered(df)),
                                       c.start_ix, c.end_ix, c.bin_size)
            IN  /\ d.runners = c.runners
                /\ d.differences = c.differences
                /\ d.value = c.value
                /\ d.raised = c.raised

\* C11 happens: a run returned on bibs that are not 1..N and on finish times that
\* are not all equal
C11_Witness ==
    /\ pc = "done"
    /\ Len(calls) = 3
    /\ Bibs # 1..N
    /\ ~Flat

\* C13: the function leaves its input alone: no step changes the rows, the row
\* order, the index labels or the columns of the caller's df.
C13_InputUnchanged == [][df' = df]_vars

\* C13 happens: a run returned on an input whose rows were not in bib order, so
\* that the sorted copy differs from the input
C13_Witness ==
    /\ pc = "done"
    /\ \E i \in 1..N : sorted_df[i].bib # df[i].bib

\* C14: no variance of an empty window takes part in a maximum selection: both
\* windows of every candidate scored at any stage hold at least one record.
C14_NoEmptyWindow ==
    Terminal =>
        \A k \in 1..Len(calls) :
            LET c == calls[k]
            IN  \A j \in 1..Len(c.runners) :
                  /\ Len(LocIsin(sorted_df, c.runners[j] - c.var_window, c.runners[j])) >= 1
                  /\ Len(LocIsin(sorted_df, c.runners[j], c.runners[j] + c.var_window)) >= 1
                  /\ ~c.differences[j].nan

\* C14 happens: a run selected maxima at all three stages, one candidate with a
\* window that reaches beyond the last record and still holds records
C14_Witness ==
    /\ pc = "done"
    /\ Len(calls) = 3
    /\ \E j \in 1..Len(calls[1].runners) :
          /\ calls[1].runners[j] + calls[1].var_window > N
          /\ Len(LocIsin(sorted_df, calls[1].runners[j],
                         calls[1].runners[j] + calls[1].var_window)) >= 1

-----------------------------------------------------------------------------
(* cleanboston.py: clean_bib, clean_bos2010, clean_bos2001, filter_runners. *)
(* A string is a sequence of one-character strings.                         *)

Digits == <<"0", "1", "2", "3", "4", "5", "6", "7", "8", "9">>

IsDigit(c) == \E d \in 1..Len(Digits) : Digits[d] = c

DigitValue(c) == (CHOOSE d \in 1..Len(Digits) : Digits[d] = c) - 1

RECURSIVE DecimalValue(_)
\* the number a non-empty string of digits denotes
DecimalValue(str) ==
    IF Len(str) = 0 THEN 0
    ELSE 10 * DecimalValue(SubSeq(str, 1, Len(str) - 1)) + DigitValue(str[Len(str)])

\* int(str) for a string without blanks, sign or underscore: the empty string
\* and a string with a character that is no digit are a ValueError
PyInt(str) ==
    IF Len(str) = 0 \/ \E i \in 1..Len(str) : ~IsDigit(str[i])
    THEN [raised |-> "ValueError", value |-> None]
    ELSE [raised |-> "", value |-> DecimalValue(str)]

\* known_prefixes = 'FWH'
known_prefixes == {"F", "W", "H"}

\* a value of a column read by pd.read_csv: a string, an integer (int64) or a
\* float (float64, NaN for an empty field)
StrValue(str)  == [type |-> "str", text |-> str, number |-> 0, nan |-> FALSE]
IntValue(k)    == [type |-> "int", text |-> <<>>, number |-> k, nan |-> FALSE]
FloatValue(k)  == [type |-> "float", text |-> <<>>, number |-> k, nan |-> FALSE]
NanValue       == [type |-> "float", text |-> <<>>, number |-> 0, nan |-> TRUE]

IsDigits(str) == Len(str) > 0 /\ \A i \in 1..Len(str) : IsDigit(str[i])

\* the column pd.read_csv makes of the fields of a csv column (strings of
\* letters and digits): int64 when every field is digits, float64 when every
\* field is digits or empty, and otherwise an object column of the strings with
\* NaN for the empty fields
ReadCsvColumn(fields) ==
    LET n == Len(fields)
    IN  IF \A i \in 1..n : IsDigits(fields[i])
        THEN [i \in 1..n |-> IntValue(DecimalValue(fields[i]))]
        ELSE IF \A i \in 1..n : IsDigits(fields[i]) \/ fields[i] = <<>>
        THEN [i \in 1..n |-> IF fields[i] = <<>> THEN NanValue
                             ELSE FloatValue(DecimalValue(fields[i]))]
        ELSE [i \in 1..n |-> IF fields[i] = <<>> THEN NanValue ELSE StrValue(fields[i])]

\* pd.read_csv(file), on the columns 'bib' and 'subgroup'
ReadCsv(file) ==
    LET bibs == ReadCsvColumn([k \in 1..Len(file) |-> file[k].bib])
    IN  [k \in 1..Len(file) |-> [bib |-> bibs[k], subgroup |-> file[k].subgroup]]

\* clean_bib(bib_string); bib_string[0] of a number (an integer or a float of a
\* column read_csv has converted) is a TypeError
clean_bib(bib_string) ==
    IF bib_string.type # "str" THEN [raised |-> "TypeError", value |-> None]
    ELSE IF Len(bib_string.text) = 0 THEN [raised |-> "IndexError", value |-> None]
    ELSE IF bib_string.text[1] \in known_prefixes
         THEN PyInt(SubSeq(bib_string.text, 2, Len(bib_string.text)))
         ELSE PyInt(bib_string.text)

\* the exception of map(clean_bib, raw['bib']): that of the first row that raises
RECURSIVE MapRaised(_, _)
MapRaised(raw, k) ==
    IF k > Len(raw) THEN ""
    ELSE IF clean_bib(raw[k].bib).raised # "" THEN clean_bib(raw[k].bib).raised
    ELSE MapRaised(raw, k + 1)

\* the columns 'bib' and 'subgroup' of the frame clean_bos2010 and clean_bos2001
\* build: clean_df['bib'] = map(clean_bib, raw_df['bib']);
\* clean_df['subgroup'] = raw_df['subgroup']
CleanColumns(raw) ==
    [k \in 1..Len(raw) |->
        [bib |-> clean_bib(raw[k].bib).value, subgroup |-> raw[k].subgroup]]

\* df[~df['subgroup'].isin(['WHEELCHAIR', 'HANDCYCLE'])]
FilterRows(frame) ==
    LET Keep(row) == row.subgroup \notin {"WHEELCHAIR", "HANDCYCLE"}
    IN  SelectSeq(frame, Keep)

MaxRows   == 2   \* a raw file has at most MaxRows rows
MaxBibLen == 2   \* a raw bib string has at most MaxBibLen characters

\* the characters of the raw bib strings
BibChars == {"F", "W", "0", "1"}

\* the fields of the column 'bib' of a raw csv file (the empty field included)
RawBibs == UNION {[1..n -> BibChars] : n \in 0..MaxBibLen}

Subgroups == {"-", "WHEELCHAIR", "HANDCYCLE"}

RawRows == [bib : RawBibs, subgroup : Subgroups]

\* the rows of a raw csv file, as written in the file
RawFrames == UNION {[1..n -> RawRows] : n \in 0..MaxRows}

\* batch_clean_2010 or batch_clean_2001 at the start of a pass of its loop
InitClean ==
    /\ raw_file \in RawFrames
    /\ raw_df = <<>>
    /\ clean_df = <<>>
    /\ clean_pc \in {"batch_clean_2010", "batch_clean_2001"}
    /\ clean_error = ""
    /\ OthersIdle("clean")

\* raw_df = pd.read_csv(folder+'/'+file)
read_csv ==
    /\ clean_pc \in {"batch_clean_2010", "batch_clean_2001"}
    /\ raw_df' = ReadCsv(raw_file)
    /\ clean_pc' = IF clean_pc = "batch_clean_2010" THEN "clean_bos2010" ELSE "clean_bos2001"
    /\ UNCHANGED <<raw_file, clean_df, clean_error>>
    /\ UNCHANGED not_clean

\* one of the two cleaners, on the columns 'bib' and 'subgroup'
Clean(which) ==
    /\ clean_pc = which
    /\ IF MapRaised(raw_df, 1) # ""
       THEN /\ clean_error' = MapRaised(raw_df, 1)
            /\ clean_pc' = "raised"
            /\ UNCHANGED clean_df
       ELSE /\ clean_df' = CleanColumns(raw_df)
            /\ clean_pc' = "filter"
            /\ UNCHANGED clean_error
    /\ UNCHANGED <<raw_file, raw_df>>
    /\ UNCHANGED not_clean

\* clean_df = clean_bos2010(raw_df, name, year)
clean_bos2010 == Clean("clean_bos2010")

\* clean_df = clean_bos2001(raw_df, name, year)
clean_bos2001 == Clean("clean_bos2001")

\* clean_df = filter_runners(clean_df), and the frame saved
filter_runners ==
    /\ clean_pc = "filter"
    /\ clean_df' = FilterRows(clean_df)
    /\ clean_pc' = "saved"
    /\ UNCHANGED <<raw_file, raw_df, clean_error>>
    /\ UNCHANGED not_clean

NextClean == read_csv \/ clean_bos2010 \/ clean_bos2001 \/ filter_runners

SpecClean == InitClean /\ [][NextClean]_vars

\* no two rows of the frame have the same bib
UniqueBibs(frame) ==
    \A i, j \in 1..Len(frame) : frame[i].bib = frame[j].bib => i = j

\* C12 (as claimed): the cleaned and filtered dataset of a race has unique bib
\* numbers whenever the raw bib strings of the race are unique.
C12_UniqueBibsKept ==
    (clean_pc = "saved" /\ UniqueBibs(raw_file)) => UniqueBibs(clean_df)

-----------------------------------------------------------------------------
(* wunderground.py: fetch_weather_page(location, month, day, year).         *)

\* "if count > 3"
MaxAttempts == 3

\* the calls the package makes: a city of the query file and a race day
Locations == {"Boston MA", "Worcester MA"}
RaceDays  == {<<4, 20, 2015>>, <<4, 21, 2014>>, <<4, 15, 2013>>, <<4, 11, 2011>>}

\* what one requests.get does: it returns a response, raises ConnectionError, or
\* raises another exception of requests (a read timeout), which is not caught
Outcomes == {"response", "ConnectionError", "ReadTimeout"}

\* the response object of a request
ResponseFor(params) == <<"response">> \o params

InitFetch ==
    /\ fetch_params \in {<<location, d[1], d[2], d[3]>> : location \in Locations, d \in RaceDays}
    /\ count = 0
    /\ success = FALSE
    /\ response = <<>>
    /\ http_requests = <<>>
    /\ fetch_pc = "while"
    /\ fetch_result = <<>>
    /\ OthersIdle("fetch")

\* one pass of the while loop: the request counted and issued, its outcome
\* recorded, and the test of the count
Attempt ==
    /\ fetch_pc = "while"
    /\ ~success
    /\ \E outcome \in Outcomes :
          /\ count' = count + 1
          /\ http_requests' = Append(http_requests, <<fetch_params, outcome>>)
          /\ success' = (outcome = "response")
          /\ response' = IF outcome = "response" THEN ResponseFor(fetch_params) ELSE response
          /\ fetch_pc' = IF outcome = "ReadTimeout" THEN "raised"
                         ELSE IF count' > MaxAttempts THEN "returned"
                         ELSE "while"
    /\ UNCHANGED <<fetch_params, fetch_result>>
    /\ UNCHANGED not_fetch

\* the loop left with success: return response
ReturnResponse ==
    /\ fetch_pc = "while"
    /\ success
    /\ fetch_result' = response
    /\ fetch_pc' = "returned"
    /\ UNCHANGED <<fetch_params, count, success, response, http_requests>>
    /\ UNCHANGED not_fetch

NextFetch == Attempt \/ ReturnResponse

SpecFetch == InitFetch /\ [][NextFetch]_vars

\* the last n requests issued all ended in a ConnectionError
LastFailed(n) ==
    /\ Len(http_requests) >= n
    /\ \A i \in (Len(http_requests) - n + 1)..Len(http_requests) :
          http_requests[i][2] = "ConnectionError"

\* C15 (as claimed): a call issues at most 3 requests, and after the third
\* consecutive ConnectionError it has given up and returned None.
C15_AtMostThreeRequests ==
    /\ Len(http_requests) <= 3
    /\ (Len(http_requests) = 3 /\ LastFailed(3)) =>
          (fetch_pc = "returned" /\ fetch_result = <<>>)

-----------------------------------------------------------------------------
(* bosscraper2015.py and bosscraper2009.py: ScrapingEngine. The content of *)
(* a page is the query it answers, the number of runner rows (tr_header)   *)
(* it holds and whether it holds the button "Next 25 Records".             *)

\* the two modules that define a ScrapingEngine
Engines == {"bosscraper2009", "bosscraper2015"}

fetch_limit == 25      \* self.fetch_limit (both engines)
query_limit == 1000    \* self.query_limit of bosscraper2015.py
query_limit_2009 == 100000    \* self.query_limit of bosscraper2009.py

\* self.query_limit of the engine
QueryLimit == IF engine = "bosscraper2009" THEN query_limit_2009 ELSE query_limit

\* string.lowercase
lowercase == <<"a", "b", "c", "d", "e", "f", "g", "h", "i", "j", "k", "l", "m",
               "n", "o", "p", "q", "r", "s", "t", "u", "v", "w", "x", "y", "z">>

MaxLetters == 2    \* the loops over c1 and c2 are cut to the first MaxLetters letters

\* the letters the loops of the model go through
Letters == SubSeq(lowercase, 1, MaxLetters)

\* self.record_string.format(lastname, start_record): the lastname and the number
\* ('{:04}' pads the number to four digits and cuts none)
record_string(lastname, number) == <<lastname, number>>

\* self.collection.find({'id': idx}).count()
FindCount(coll, idx) == Len(SelectSeq(coll, LAMBDA doc : doc.id = idx))

\* (mutation of store_marathon_data: the document inserted without the lookup)
store_unchecked(coll, idx, data) == Append(coll, [id |-> idx, content |-> data])

\* _store_marathon_data(idx, data) (store_marathon_data in bosscraper2009.py):
\* the collection after the call
store_marathon_data(coll, idx, data) ==
    IF FindCount(coll, idx) = 0
    THEN Append(coll, [id |-> idx, content |-> data])
    ELSE coll

\* the number of runners of the website a query matches: all runners of the
\* lastname for GenderID 0, half of them for GenderID 1 or 2
SiteMatches(lastname, gender) ==
    IF gender = 0 THEN site[lastname] ELSE site[lastname] \div 2

\* the page the website returns for a query: at most fetch_limit rows of the
\* matches, starting at match start_num, and the button "Next 25 Records" when
\* matches follow the page; the engine of bosscraper2015.py asks for the first
\* query_limit matches only (VarTargetCount), that of bosscraper2009.py sets no
\* such count
request_by_lastname(lastname, start_num, gender) ==
    LET matches == IF engine = "bosscraper2015"
                   THEN Min2(SiteMatches(lastname, gender), query_limit)
                   ELSE SiteMatches(lastname, gender)
    IN  [lastname |-> lastname, gender |-> gender, start |-> start_num,
         runners |-> Max2(0, Min2(fetch_limit, matches - (start_num - 1))),
         next |-> matches - (start_num - 1) > fetch_limit]

\* _get_num_runners(content) (get_num_runners in bosscraper2009.py)
get_num_runners(content) == content.runners

\* is_end_of_search(content) of bosscraper2009.py: True when the page holds no
\* button "Next 25 Records"
is_end_of_search(content) == ~content.next

\* the two-letter lastnames the run searches for
Lastnames == {<<Letters[i], Letters[j]>> : i, j \in 1..Len(Letters)}

MaxRuns == 2    \* the engine starts at most MaxRuns scrape runs

\* the lastnames whose number of runners differs between the websites
BusyLastnames == {<<"a", "a">>, <<"a", "b">>}

\* websites: a query for a busy lastname matches more than a page of runners or
\* a page more than the query limit of bosscraper2015.py, a query for another
\* lastname less than a page
Sites ==
    {s \in [Lastnames -> {5, 30, query_limit + fetch_limit}] :
        \A lastname \in Lastnames : s[lastname] = 5 <=> lastname \notin BusyLastnames}

\* the id and the page passed to a direct call of the store
StoreIds  == {record_string(<<"a", "a">>, 1)}
StoreData == {[lastname |-> <<"a", "a">>, gender |-> 0, start |-> 1, runners |-> 0,
               next |-> FALSE]}

\* the arguments of scrape_lastname_subset
SubsetLastnames == {<<"a", "a">>}
SubsetGenders   == {1, 2}

\* values of start_record at which a run can be interrupted (KeyboardInterrupt)
InterruptPoints == {1 + fetch_limit, 1 + 20 * fetch_limit}

\* scraper = ScrapingEngine(...) on an empty collection
InitScrape ==
    /\ engine \in Engines
    /\ site \in Sites
    /\ collection = <<>>
    /\ scrape_method = ""
    /\ subset_query = <<>>
    /\ max_reached = <<>>
    /\ total_runners = 0
    /\ c1 = 0
    /\ c2 = 0
    /\ start_record = 0
    /\ record_name = <<>>
    /\ page_response = <<>>
    /\ posted = <<>>
    /\ runs = 0
    /\ report = <<>>
    /\ last_store = <<>>
    /\ scrape_pc = "ready"
    /\ OthersIdle("scrape")

\* the engine is not inside a scrape method
BetweenRuns == scrape_pc \in {"ready", "returned", "subset_returned", "interrupted"}

\* a direct call scraper._store_marathon_data(idx, data) between runs
Store ==
    /\ BetweenRuns
    /\ \E idx \in StoreIds, data \in StoreData :
          /\ collection' = store_marathon_data(collection, idx, data)
          /\ last_store' = <<idx, FindCount(collection, idx) > 0>>
    /\ UNCHANGED <<engine, site, scrape_method, subset_query, max_reached, total_runners, c1, c2,
                   start_record, record_name, page_response, posted, runs, report, scrape_pc>>
    /\ UNCHANGED not_scrape

\* scraper.scrape_all_by_lastname() called: max_reached = [], and the first pass
\* of the loops up to the first start_record
StartScrape ==
    /\ BetweenRuns
    /\ runs < MaxRuns
    /\ runs' = runs + 1
    /\ scrape_method' = "scrape_all_by_lastname"
    /\ subset_query' = <<>>
    /\ max_reached' = <<>>
    /\ c1' = 1
    /\ c2' = 1
    /\ total_runners' = 0
    /\ start_record' = 1
    /\ posted' = <<>>
    /\ report' = <<>>
    /\ scrape_pc' = "lookup"
    /\ UNCHANGED <<engine, site, collection, record_name, page_response, last_store>>
    /\ UNCHANGED not_scrape

\* scraper.scrape_lastname_subset(lastname, gender) called, up to the first
\* start_record
StartSubset ==
    /\ BetweenRuns
    /\ runs < MaxRuns
    /\ runs' = runs + 1
    /\ scrape_method' = "scrape_lastname_subset"
    /\ \E lastname \in SubsetLastnames, gender \in SubsetGenders :
          subset_query' = <<lastname, gender>>
    /\ start_record' = 1
    /\ posted' = <<>>
    /\ report' = <<>>
    /\ scrape_pc' = "lookup"
    /\ UNCHANGED <<engine, site, collection, max_reached, total_runners, c1, c2, record_name,
                   page_response, last_store>>
    /\ UNCHANGED not_scrape

\* the lastname and the gender of the queries of the loop over start_record
QueryLastname ==
    IF scrape_method = "scrape_all_by_lastname" THEN <<Letters[c1], Letters[c2]>>
    ELSE subset_query[1]

QueryGender == IF scrape_method = "scrape_all_by_lastname" THEN 0 ELSE subset_query[2]

\* the id of the page: record_string.format(lastname, start_record) in
\* scrape_all_by_lastname, record_string.format(lastname+str(gender),
\* start_record) in scrape_lastname_subset
QueryName ==
    IF scrape_method = "scrape_all_by_lastname"
    THEN record_string(QueryLastname, start_record)
    ELSE record_string(Append(QueryLastname, Digits[QueryGender + 1]), start_record)

\* the position after the loop over start_record
AfterPages == IF scrape_method = "scrape_all_by_lastname" THEN "counted" ELSE "subset_end"

\* a pass of the loop over start_record up to the lookup of the id: the page is
\* requested when the id is absent, and skipped ('x') when it is present
\* (scrape_lastname_subset sets total_runners to 0 in every pass)
Lookup ==
    /\ scrape_pc = "lookup"
    /\ record_name' = QueryName
    /\ total_runners' = IF scrape_method = "scrape_lastname_subset" THEN 0 ELSE total_runners
    /\ IF FindCount(collection, QueryName) = 0
       THEN /\ scrape_pc' = "post"
            /\ UNCHANGED start_record
       ELSE IF start_record + fetch_limit >= QueryLimit
       THEN /\ scrape_pc' = AfterPages
            /\ UNCHANGED start_record
       ELSE /\ start_record' = start_record + fetch_limit
            /\ UNCHANGED scrape_pc
    /\ UNCHANGED <<engine, site, collection, scrape_method, subset_query, max_reached, c1, c2,
                   page_response, posted, runs, report, last_store>>
    /\ UNCHANGED not_scrape

\* r = self._request_by_lastname(lastname, start_record[, gender])
Post ==
    /\ scrape_pc = "post"
    /\ page_response' = request_by_lastname(QueryLastname, start_record, QueryGender)
    /\ posted' = Append(posted, <<QueryLastname, start_record, QueryGender>>)
    /\ scrape_pc' = "store"
    /\ UNCHANGED <<engine, site, collection, scrape_method, subset_query, max_reached,
                   total_runners, c1, c2, start_record, record_name, runs, report,
                   last_store>>
    /\ UNCHANGED not_scrape

\* self._store_marathon_data(record_name, r.content)
StorePage ==
    /\ scrape_pc = "store"
    /\ collection' = store_marathon_data(collection, record_name, page_response)
    /\ last_store' = <<record_name, FindCount(collection, record_name) > 0>>
    /\ scrape_pc' = "count"
    /\ UNCHANGED <<engine, site, scrape_method, subset_query, max_reached, total_runners, c1, c2,
                   start_record, record_name, page_response, posted, runs, report>>
    /\ UNCHANGED not_scrape

\* the end of the loop over start_record after a page was stored: the engine
\* of bosscraper2015.py breaks on a page of fewer than 25 runners, that of
\* bosscraper2009.py on a page without the button "Next 25 Records"
Break(content) ==
    IF engine = "bosscraper2009" THEN is_end_of_search(content)
    ELSE get_num_runners(content) < 25

\* num_runners = self._get_num_runners(r.content); total_runners += num_runners;
\* if num_runners < 25: break  (bosscraper2009.py: total_runners +=
\* self.get_num_runners(r.content); if self.is_end_of_search(r.content): break)
CountRunners ==
    /\ scrape_pc = "count"
    /\ LET num_runners == get_num_runners(page_response)
       IN  /\ total_runners' = total_runners + num_runners
           /\ IF Break(page_response) \/ start_record + fetch_limit >= QueryLimit
              THEN /\ scrape_pc' = AfterPages
                   /\ UNCHANGED start_record
              ELSE /\ start_record' = start_record + fetch_limit
                   /\ scrape_pc' = "lookup"
    /\ UNCHANGED <<engine, site, collection, scrape_method, subset_query, max_reached, c1, c2,
                   record_name, page_response, posted, runs, report, last_store>>
    /\ UNCHANGED not_scrape

\* after the loop over start_record: the test of total_runners, and the next
\* pass of the loops over c2 and c1
EndLastname ==
    /\ scrape_pc = "counted"
    /\ max_reached' = IF total_runners >= QueryLimit
                      THEN Append(max_reached, record_name) ELSE max_reached
    /\ IF c2 < Len(Letters)
       THEN c1' = c1 /\ c2' = c2 + 1 /\ scrape_pc' = "lookup"
       ELSE IF c1 < Len(Letters)
            THEN c1' = c1 + 1 /\ c2' = 1 /\ scrape_pc' = "lookup"
            ELSE c1' = c1 /\ c2' = c2 /\ scrape_pc' = "report"
    /\ total_runners' = IF scrape_pc' = "lookup" THEN 0 ELSE total_runners
    /\ start_record' = IF scrape_pc' = "lookup" THEN 1 ELSE start_record
    /\ UNCHANGED <<engine, site, collection, scrape_method, subset_query, record_name,
                   page_response, posted, runs, report, last_store>>
    /\ UNCHANGED not_scrape

\* the locals of the scrape method after it has ended
LocalsGone ==
    /\ scrape_method' = ""
    /\ subset_query' = <<>>
    /\ max_reached' = <<>>
    /\ total_runners' = 0
    /\ c1' = 0
    /\ c2' = 0
    /\ start_record' = 0
    /\ record_name' = <<>>
    /\ page_response' = <<>>

\* print ' '.join(max_reached), and scrape_all_by_lastname returns; the engine
\* of bosscraper2009.py prints the list only when it is not empty
Report ==
    /\ scrape_pc = "report"
    /\ report' = IF engine = "bosscraper2009" /\ Len(max_reached) = 0
                 THEN report ELSE max_reached
    /\ scrape_pc' = "returned"
    /\ LocalsGone
    /\ UNCHANGED <<engine, site, collection, posted, runs, last_store>>
    /\ UNCHANGED not_scrape

\* print '({})'.format(total_runners), and scrape_lastname_subset returns
ReturnSubset ==
    /\ scrape_pc = "subset_end"
    /\ scrape_pc' = "subset_returned"
    /\ LocalsGone
    /\ UNCHANGED <<engine, site, collection, posted, runs, report, last_store>>
    /\ UNCHANGED not_scrape

\* the run interrupted from the keyboard, before any statement of a pass of the
\* loop over start_record (while the lookup, the website or the store is
\* awaited): the locals are gone, the collection stays
Interrupt ==
    /\ scrape_pc \in {"lookup", "post", "store", "count"}
    /\ start_record \in InterruptPoints
    /\ scrape_pc' = "interrupted"
    /\ LocalsGone
    /\ UNCHANGED <<engine, site, collection, posted, runs, report, last_store>>
    /\ UNCHANGED not_scrape

NextScrape ==
    \/ Store \/ StartScrape \/ StartSubset \/ Lookup \/ Post \/ StorePage
    \/ CountRunners \/ EndLastname \/ Report \/ ReturnSubset \/ Interrupt

SpecScrape == InitScrape /\ [][NextScrape]_vars

\* the ids of the documents of the collection
Ids == {collection[i].id : i \in 1..Len(collection)}

\* C16: the collection holds at most one document per id, and a store for an id
\* that is present leaves the collection as it is (whatever the data).
C16_OneDocumentPerId ==
    /\ Cardinality(Ids) = Len(collection)
    /\ \A idx \in StoreIds \cup (IF record_name = <<>> THEN {} ELSE {record_name}) :
          \A data \in StoreData :
              FindCount(collection, idx) > 0 =>
                  store_marathon_data(collection, idx, data) = collection

\* C16 happens: after a scrape run, the store was called for an id the run had
\* stored, with other data
C16_Witness ==
    /\ runs >= 1
    /\ last_store = <<record_string(<<"a", "a">>, 1), TRUE>>
    /\ \E i \in 1..Len(collection) :
          /\ collection[i].id = last_store[1]
          /\ collection[i].content \notin StoreData

\* the requests of the current run for a lastname, without a gender
PostedFor(lastname) == SelectSeq(posted, LAMBDA q : q[1] = lastname /\ q[3] = 0)

\* all 40 pages of a lastname are in the collection and hold 25 runners each
AllPagesFull(lastname) ==
    \A k \in 1..40 :
        \E i \in 1..Len(collection) :
            /\ collection[i].id = record_string(lastname, 1 + 25 * (k - 1))
            /\ collection[i].content.runners = 25

\* C17 (as claimed): a run of the 2010-2015 scraper requests at most 40 pages of
\* at most 25 records per two-letter lastname, and when it returns, every
\* lastname whose search hit the limit of 1000 records (all 40 pages full) is in
\* the list it printed, whatever the collection held when the run started.
C17_LimitReported ==
    engine = "bosscraper2015" =>
        /\ \A lastname \in Lastnames :
              /\ Len(PostedFor(lastname)) <= 40
              /\ \A i \in 1..Len(collection) : collection[i].content.runners <= 25
        /\ scrape_pc = "returned" =>
              \A lastname \in Lastnames :
                  AllPagesFull(lastname) =>
                      \E j \in 1..Len(report) : report[j][1] = lastname

-----------------------------------------------------------------------------
(* combineboston.py: fill_in_missing_splits(df). A row is a function from   *)
(* column names to values; a time is a rational <<numerator, denominator>>  *)
(* with a positive denominator, <<0, 0>> being nan; distances are in metres.*)
(* The frames hold string columns beside the times, so a row of iterrows is *)
(* an object Series and its times are Python floats: dividing by 0 raises.  *)

splits == <<"starttime", "time5k", "time10k", "time15k", "time20k", "timehalf",
            "time25k", "time30k", "time35k", "time40k", "offltime">>

missed_splits_cols == <<"miss5k", "miss10k", "miss15k", "miss20k", "misshalf",
                        "miss25k", "miss30k", "miss35k", "miss40k">>

split_dist ==
    [split \in {splits[j] : j \in 1..Len(splits)} |->
        CASE split = "starttime" -> 0
          [] split = "time5k"    -> 5000
          [] split = "time10k"   -> 10000
          [] split = "time15k"   -> 15000
          [] split = "time20k"   -> 20000
          [] split = "timehalf"  -> 21098
          [] split = "time25k"   -> 25000
          [] split = "time30k"   -> 30000
          [] split = "time35k"   -> 35000
          [] split = "time40k"   -> 40000
          [] split = "offltime"  -> 42195]

\* the float of a whole number of minutes
Minutes(t) == <<t, 1>>

TimeIsNan(x)  == x[2] = 0
TimeIsZero(x) == x[2] # 0 /\ x[1] = 0
TimeIsPositive(x) == x[2] # 0 /\ x[1] > 0

\* the quotient num / den of two Python floats holding integers, as a time;
\* a division by 0 is a ZeroDivisionError
Quotient(num, den) ==
    IF den = 0 THEN [raised |-> "ZeroDivisionError", value |-> <<0, 0>>]
    ELSE IF den < 0 THEN [raised |-> "", value |-> <<0 - num, 0 - den>>]
    ELSE [raised |-> "", value |-> <<num, den>>]

\* get_interpolated_time on a row whose times are whole minutes:
\* runner[last] + (time_diff / distance) * time_to_interpolate, raising when
\* pace = time_diff / distance divides by 0
get_interpolated_time(runner, split, last_known, next_known) ==
    LET distance  == split_dist[next_known] - split_dist[last_known]
        time_diff == runner[next_known][1] - runner[last_known][1]
        time_to_interpolate == split_dist[split] - split_dist[last_known]
    IN  Quotient(runner[last_known][1] * distance + time_diff * time_to_interpolate,
                 distance)

RECURSIVE FindNextKnown(_, _, _)
\* the loop "for next_split in splits[split_ix+1:]" from place j of splits on:
\* the first split with a value other than 0, or the value next_known_split had
FindNextKnown(runner, j, stale) ==
    IF j > Len(splits) THEN stale
    ELSE IF ~TimeIsZero(runner[splits[j]]) THEN splits[j]
    ELSE FindNextKnown(runner, j + 1, stale)

\* (mutation of MissedColumn: the list of flags indexed like the list of splits,
\* one place early; the place -1 of a Python list is its last)
MissedColumnShifted(split_ix) ==
    IF split_ix = 0 THEN missed_splits_cols[Len(missed_splits_cols)]
    ELSE missed_splits_cols[split_ix]

\* missed_splits_cols[split_ix]
MissedColumn(split_ix) == missed_splits_cols[split_ix + 1]

RECURSIVE FillRow(_, _, _)
\* the loop "for split_ix, split in enumerate(splits[1:-1])" from split_ix on, for
\* one runner; acc holds the row of df, last_known_split, next_known_split and the
\* exception raised (a read of the unbound next_known_split, or the division by
\* 0 of get_interpolated_time, which leaves the split and its flag unwritten)
FillRow(runner, split_ix, acc) ==
    IF split_ix > Len(splits) - 3 \/ acc.raised # "" THEN acc
    ELSE LET split == splits[split_ix + 2]
         IN  IF TimeIsPositive(runner[split])
             THEN FillRow(runner, split_ix + 1, [acc EXCEPT !.last = split])
             ELSE IF TimeIsZero(runner[split])
             THEN LET found == FindNextKnown(runner, split_ix + 2, acc.next)
                  IN  IF found = ""
                      THEN [acc EXCEPT !.raised = "UnboundLocalError"]
                      ELSE LET time == get_interpolated_time(runner, split, acc.last, found)
                           IN  IF time.raised # ""
                               THEN [acc EXCEPT !.next = found, !.raised = time.raised]
                               ELSE FillRow(runner, split_ix + 1,
                                        [acc EXCEPT
                                           !.next = found,
                                           !.row = [acc.row EXCEPT
                                               ![split] = time.value,
                                               ![MissedColumn(split_ix)] = TRUE]])
             ELSE FillRow(runner, split_ix + 1, acc)

MaxMissing == 2    \* a runner has at most MaxMissing intermediate splits missing

\* the minutes of a steady runner at each split
SteadyTime ==
    [split \in {splits[j] : j \in 1..Len(splits)} |-> (split_dist[split] * 5) \div 1000]

Intermediate == {splits[j] : j \in 2..(Len(splits) - 1)}

\* a row: the steady runner with the splits of `missing` recorded as 0, and with a
\* finish time of 0 when not finished
RunnerRow(missing, finished) ==
    [split \in {splits[j] : j \in 1..Len(splits)} |->
        IF split \in missing \/ (split = "offltime" /\ ~finished)
        THEN Minutes(0) ELSE Minutes(SteadyTime[split])]

RunnerRows ==
    {RunnerRow(missing, finished) :
        missing \in {m \in SUBSET Intermediate : Cardinality(m) <= MaxMissing},
        finished \in BOOLEAN}

\* frames of one or two runners
SplitFrames == {<<r>> : r \in RunnerRows} \cup {<<r, q>> : r, q \in RunnerRows}

InitSplits ==
    /\ split_input \in SplitFrames
    /\ split_df = split_input
    /\ runner_ix = 0
    /\ next_known_split = ""
    /\ split_error = ""
    /\ split_pc = "columns"
    /\ OthersIdle("splits")

\* for newcol in missed_splits_cols: df[newcol] = False
CreateMissColumns ==
    /\ split_pc = "columns"
    /\ split_df' = [i \in 1..Len(split_df) |->
                      [col \in DOMAIN split_df[i]
                                 \cup {missed_splits_cols[j] : j \in 1..Len(missed_splits_cols)} |->
                          IF col \in DOMAIN split_df[i] THEN split_df[i][col] ELSE FALSE]]
    /\ runner_ix' = 1
    /\ split_pc' = "iterrows"
    /\ UNCHANGED <<split_input, next_known_split, split_error>>
    /\ UNCHANGED not_splits

\* one pass of "for ix, runner in df.iterrows()"
FillRunner ==
    /\ split_pc = "iterrows"
    /\ runner_ix <= Len(split_df)
    /\ LET runner == split_df[runner_ix]
           done   == FillRow(runner, 0, [row |-> runner, last |-> splits[1],
                                         next |-> next_known_split, raised |-> ""])
       IN  /\ split_df' = [split_df EXCEPT ![runner_ix] = done.row]
           /\ next_known_split' = done.next
           /\ split_error' = done.raised
           /\ split_pc' = IF done.raised = "" THEN "iterrows" ELSE "raised"
    /\ runner_ix' = runner_ix + 1
    /\ UNCHANGED split_input
    /\ UNCHANGED not_splits

\* return df
ReturnSplits ==
    /\ split_pc = "iterrows"
    /\ runner_ix > Len(split_df)
    /\ split_pc' = "returned"
    /\ UNCHANGED <<split_input, split_df, runner_ix, next_known_split, split_error>>
    /\ UNCHANGED not_splits

NextSplits == CreateMissColumns \/ FillRunner \/ ReturnSplits

SpecSplits == InitSplits /\ [][NextSplits]_vars

\* C18: when fill_in_missing_splits has returned, the miss flag of every
\* intermediate split of every runner is True exactly when that split was 0 in
\* the input, and every split that was not 0 in the input, the start time and the
\* finish time are as in the input.
C18_FlagsMarkTheZeroSplits ==
    split_pc = "returned" =>
        /\ Len(split_df) = Len(split_input)
        /\ \A i \in 1..Len(split_df) :
              /\ \A k \in 1..9 :
                    LET split == <<"time5k", "time10k", "time15k", "time20k", "timehalf",
                                   "time25k", "time30k", "time35k", "time40k">>[k]
                        miss  == <<"miss5k", "miss10k", "miss15k", "miss20k", "misshalf",
                                   "miss25k", "miss30k", "miss35k", "miss40k">>[k]
                    IN  /\ split_df[i][miss] = (split_input[i][split] = <<0, 1>>)
                        /\ split_input[i][split] # <<0, 1>> =>
                              split_df[i][split] = split_input[i][split]
              /\ split_df[i]["starttime"] = split_input[i]["starttime"]
              /\ split_df[i]["offltime"] = split_input[i]["offltime"]

\* C18 happens: the function returned on a runner whose 10k split was 0 and is now
\* interpolated and flagged, and whose 5k split was recorded
C18_Witness ==
    /\ split_pc = "returned"
    /\ \E i \in 1..Len(split_df) :
          /\ split_input[i]["time10k"] = <<0, 1>>
          /\ split_input[i]["time5k"] # <<0, 1>>
          /\ split_df[i]["miss10k"]
          /\ split_df[i]["time10k"] # <<0, 1>>

-----------------------------------------------------------------------------
(* combineboston.py: find_same_runner(runner, df, lastnames), with          *)
(* year_of_birth, do_ages_match and runner_tiebreaker_. A name is the       *)
(* sequence of its words and a word the sequence of its characters.         *)

\* year_of_birth(runner)
year_of_birth(runner) == runner.year - runner.age

Abs(x) == IF x < 0 THEN 0 - x ELSE x

\* do_ages_match(runner_yob, df): the boolean mask over the rows of df
do_ages_match(runner_yob, frame) ==
    IF \A k \in 1..Len(frame) : frame[k].age >= 0
    THEN [k \in 1..Len(frame) |-> Abs(year_of_birth(frame[k]) - runner_yob) <= 1]
    ELSE [k \in 1..Len(frame) |->
            /\ runner_yob <= frame[k].year - frame[k].minage
            /\ runner_yob >= frame[k].year - frame[k].maxage]

\* get_initial(name): name.split(' ')[-1][0]
get_initial(name) == name[Len(name)][1]

\* score[ix] of runner_tiebreaker_
TiebreakScore(runner, runner2) ==
    (IF runner.state = runner2.state THEN 2 ELSE 0)
    + (IF runner.country = runner2.country THEN 2 ELSE 0)
    + (IF runner.city = runner2.city THEN 2 ELSE 0)
    + (IF runner.name = runner2.name THEN 1 ELSE 0)
    + (IF get_initial(runner.name) = get_initial(runner2.name) THEN 3 ELSE 0)
    + (IF year_of_birth(runner) = year_of_birth(runner2) THEN 1 ELSE 0)

\* runner_tiebreaker_(runner, df): the places of the rows max(score, key=score.get)
\* can return (the order in which a dict is scanned decides among equal scores)
runner_tiebreaker_(runner, frame) ==
    {k \in 1..Len(frame) :
        \A j \in 1..Len(frame) :
            TiebreakScore(runner, frame[j]) <= TiebreakScore(runner, frame[k])}

\* df.loc[mask]
LocMask(frame, mask) ==
    LET Place(k) == Cardinality({j \in 1..k : mask[j]})
    IN  [p \in 1..Cardinality({j \in 1..Len(frame) : mask[j]}) |->
            frame[CHOOSE k \in 1..Len(frame) : mask[k] /\ Place(k) = p]]

MaxCandidates == 2    \* the searched dataset has at most MaxCandidates rows

\* the runner searched for: a record of the 2015 race
TheRunner ==
    [lastname |-> "SMITH", firstname |-> "ANNA", gender |-> FALSE, year |-> 2015, age |-> 38,
     state |-> "MA", country |-> "USA", city |-> "Boston",
     name |-> << <<"S", "m", "i", "t", "h", ",">>, <<"A", "n", "n", "a">>, <<"P">> >>]

\* what a record of an earlier race can say about who ran: the runner's own
\* identity, or one with another last name, first name or gender
Identities ==
    {[lastname |-> "SMITH", firstname |-> "ANNA", gender |-> FALSE],
     [lastname |-> "JONES", firstname |-> "ANNA", gender |-> FALSE],
     [lastname |-> "SMITH", firstname |-> "BETH", gender |-> FALSE],
     [lastname |-> "SMITH", firstname |-> "ANNA", gender |-> TRUE]}

\* where from, and the full name
Homes ==
    {[state |-> "MA", country |-> "USA", city |-> "Boston",
      name |-> << <<"S", "m", "i", "t", "h", ",">>, <<"A", "n", "n", "a">>, <<"P">> >>],
     [state |-> "NY", country |-> "USA", city |-> "Albany",
      name |-> << <<"S", "m", "i", "t", "h", ",">>, <<"A", "n", "n", "a">> >>]}

\* ages of a record of the 2014 race (-1 when the source gives none) and the age
\* ranges of its division; a known age lies in the range of the division
Ages      == {-1, 35, 37}
Divisions == {[minage |-> 35, maxage |-> 39], [minage |-> 60, maxage |-> 64]}

AgesInDivisions ==
    {ad \in [age : Ages, div : Divisions] :
        ad.age = -1 \/ (ad.div.minage <= ad.age /\ ad.age <= ad.div.maxage)}

CandidateRows ==
    {[lastname |-> id.lastname, firstname |-> id.firstname, gender |-> id.gender,
      year |-> 2014, age |-> ad.age, minage |-> ad.div.minage, maxage |-> ad.div.maxage,
      state |-> home.state, country |-> home.country, city |-> home.city,
      name |-> home.name] :
        id \in Identities, home \in Homes, ad \in AgesInDivisions}

CandidateFrames == UNION {[1..n -> CandidateRows] : n \in 0..MaxCandidates}

\* prior = find_same_runner(runner, df, lastnames) with lastnames = set(df['lastname'])
InitMatch ==
    /\ match_runner = TheRunner
    /\ match_all \in CandidateFrames
    /\ match_lastnames = {match_all[k].lastname : k \in 1..Len(match_all)}
    /\ match_df = <<>>
    /\ found_runner = <<>>
    /\ match_pc = "lastname"
    /\ OthersIdle("match")

\* one step of the cascade: the rows of frame that pass the test are kept, and
\* with no row left the function returns pd.Series()
Narrow(frame, mask, next) ==
    /\ match_df' = LocMask(frame, mask)
    /\ match_pc' = IF Len(match_df') > 0 THEN next ELSE "returned"
    /\ UNCHANGED <<match_runner, match_all, match_lastnames, found_runner>>
    /\ UNCHANGED not_match

\* if runner['lastname'] in lastnames: match = (df['lastname'] == runner['lastname'])
MatchLastname ==
    /\ match_pc = "lastname"
    /\ IF match_runner.lastname \in match_lastnames
       THEN Narrow(match_all,
                   [k \in 1..Len(match_all) |-> match_all[k].lastname = match_runner.lastname],
                   "firstname")
       ELSE /\ match_pc' = "returned"
            /\ UNCHANGED <<match_runner, match_all, match_lastnames, match_df, found_runner>>
            /\ UNCHANGED not_match

\* match = match_df['firstname'] == runner['firstname']
MatchFirstname ==
    /\ match_pc = "firstname"
    /\ Narrow(match_df,
              [k \in 1..Len(match_df) |-> match_df[k].firstname = match_runner.firstname],
              "gender")

\* match = match_df['gender'] == runner['gender']
MatchGender ==
    /\ match_pc = "gender"
    /\ Narrow(match_df,
              [k \in 1..Len(match_df) |-> match_df[k].gender = match_runner.gender],
              "age")

\* match = do_ages_match(runner_yob, match_df), and the return
MatchAge ==
    /\ match_pc = "age"
    /\ LET kept == LocMask(match_df, do_ages_match(year_of_birth(match_runner), match_df))
       IN  /\ match_df' = kept
           /\ IF Len(kept) = 0 THEN found_runner' = <<>>
              ELSE IF Len(kept) = 1 THEN found_runner' = <<kept[1]>>
              ELSE \E k \in runner_tiebreaker_(match_runner, kept) : found_runner' = <<kept[k]>>
    /\ match_pc' = "returned"
    /\ UNCHANGED <<match_runner, match_all, match_lastnames>>
    /\ UNCHANGED not_match

NextMatch == MatchLastname \/ MatchFirstname \/ MatchGender \/ MatchAge

SpecMatch == InitMatch /\ [][NextMatch]_vars

\* the four criteria of the claim
SameRunner(runner, row) ==
    /\ row.lastname = runner.lastname
    /\ row.firstname = runner.firstname
    /\ row.gender = runner.gender
    /\ Abs((row.year - row.age) - (runner.year - runner.age)) <= 1

\* C19 (as claimed): a record returned has the runner's last name, first name and
\* gender and a birth year (year - age) within 1 of the runner's; when no record of
\* the dataset meets the four criteria, the empty Series is returned.
C19_ReturnedRecordIsSameRunner ==
    match_pc = "returned" =>
        /\ found_runner # <<>> => SameRunner(match_runner, found_runner[1])
        /\ (\A k \in 1..Len(match_all) : ~SameRunner(match_runner, match_all[k])) =>
              found_runner = <<>>

-----------------------------------------------------------------------------
(* combineboston.py: create_misc_home(df), on the column 'home'.            *)

\* df['home'].value_counts(): the number of rows of each label of the column
value_counts(column) ==
    [label \in {column[i] : i \in 1..Len(column)} |->
        Len(SelectSeq(column, LAMBDA x : x = label))]

\* n / 1000 for integers n >= 0 (Python 2: the quotient rounded down)
PyDiv(n, d) == n \div d

\* set(count_df[count_df < n / 1000].index)
MiscList(column) ==
    LET n        == Len(column)
        count_df == value_counts(column)
    IN  {label \in DOMAIN count_df : count_df[label] < PyDiv(n, 1000)}

MaxThousands == 2    \* record counts range over 1000 * k + r, k <= MaxThousands
MaxSmall     == 2    \* the two small categories hold at most MaxSmall records each

HomeSizes == {1000 * k + r : k \in 0..MaxThousands, r \in {0, 1, 500, 999}} \ {0}

\* the column 'home' of n records: `vt` from VT, then `ny` from NY, the others
\* from MA
HomeColumn(n, vt, ny) ==
    [i \in 1..n |-> IF i <= vt THEN "VT" ELSE IF i <= vt + ny THEN "NY" ELSE "MA"]

HomeColumns ==
    {HomeColumn(n, vt, ny) : n \in {m \in HomeSizes : m > 2 * MaxSmall},
                             vt \in 0..MaxSmall, ny \in 0..MaxSmall}

InitHome ==
    /\ home_input \in HomeColumns
    /\ home_df = home_input
    /\ misc_list = {}
    /\ home_pc = "count"
    /\ OthersIdle("home")

\* n = len(df); count_df = df['home'].value_counts(); misc_list = ...
SelectMisc ==
    /\ home_pc = "count"
    /\ misc_list' = MiscList(home_df)
    /\ home_pc' = "relabel"
    /\ UNCHANGED <<home_input, home_df>>
    /\ UNCHANGED not_home

\* df.loc[df['home'].isin(misc_list), 'home'] = 'MISC'; return df
RelabelMisc ==
    /\ home_pc = "relabel"
    /\ home_df' = [i \in 1..Len(home_df) |->
                      IF home_df[i] \in misc_list THEN "MISC" ELSE home_df[i]]
    /\ home_pc' = "returned"
    /\ UNCHANGED <<home_input, misc_list>>
    /\ UNCHANGED not_home

NextHome == SelectMisc \/ RelabelMisc

SpecHome == InitHome /\ [][NextHome]_vars

\* C20 (as claimed): every category of fewer than 0.1% of the records
\* (count < n/1000 as an exact fraction, count * 1000 < n) is relabelled 'MISC',
\* and every category of at least 0.1% keeps its label.
C20_SmallCategoriesBecomeMisc ==
    home_pc = "returned" =>
        LET n      == Len(home_input)
            counts == value_counts(home_input)
        IN  \A label \in DOMAIN counts :
                \A i \in 1..n :
                    home_input[i] = label =>
                        home_df[i] = IF counts[label] * 1000 < n THEN "MISC" ELSE label

-----------------------------------------------------------------------------
(* combineboston.py and matching_estimators.py: get_weather_array and       *)
(* get_wind_vector.  A wind component is the exact value                    *)
(* (one + sin22 * sin(pi/8) + sin45 * sin(pi/4) + sin67 * sin(3 pi/8)) / den *)
(* with integer coefficients.                                               *)

Copies == {"combineboston", "matching_estimators"}

mph == <<"m", "p", "h">>

\* s[-k:] of a string s
PySuffix(s, k) == IF k >= Len(s) THEN s ELSE SubSeq(s, Len(s) - k + 1, Len(s))

\* s[0:-k] of a string s, k > 0
PyDropSuffix(s, k) == IF k >= Len(s) THEN <<>> ELSE SubSeq(s, 1, Len(s) - k)

RECURSIVE Pow10(_)
Pow10(k) == IF k = 0 THEN 1 ELSE 10 * Pow10(k - 1)

\* float(str) for a string of digits and points: <<numerator, denominator>>;
\* a string without a digit or with two points is a ValueError
PyFloat(str) ==
    LET points == {i \in 1..Len(str) : str[i] = "."}
        digits == SelectSeq(str, IsDigit)
    IN  IF \/ Len(digits) = 0
           \/ Cardinality(points) > 1
           \/ \E i \in 1..Len(str) : ~IsDigit(str[i]) /\ str[i] # "."
        THEN [raised |-> "ValueError", value |-> <<>>]
        ELSE LET decimals == IF points = {} THEN 0
                             ELSE Len(str) - (CHOOSE i \in points : TRUE)
             IN  [raised |-> "", value |-> <<DecimalValue(digits), Pow10(decimals)>>]

\* the branch of get_weather_array's loop an element takes
WeatherBranch(copy, s, unit) ==
    IF PySuffix(s, Len(unit)) = unit THEN "unit"
    ELSE IF s = <<"-">> THEN "dash"
    ELSE IF copy = "combineboston" /\ s = <<"C", "a", "l", "m">> THEN "calm"
    ELSE "error"

\* get_weather_array(wunderground_array, unit) of the named module.  After an
\* element of the error branch, matching_estimators prints
\* wunderground_array['date']: a TypeError on a list, a KeyError on a Series
\* of observations.
get_weather_array(copy, kind, wunderground_array, unit) ==
    LET n      == Len(wunderground_array)
        branch == [i \in 1..n |-> WeatherBranch(copy, wunderground_array[i], unit)]
        parsed == [i \in 1..n |->
                      IF branch[i] = "unit"
                      THEN PyFloat(PyDropSuffix(wunderground_array[i], Len(unit)))
                      ELSE [raised |-> "", value |-> <<0, 1>>]]
    IN  IF \E i \in 1..n : parsed[i].raised # ""
        THEN [raised |-> "ValueError", value |-> <<>>]
        ELSE IF copy = "matching_estimators" /\ \E i \in 1..n : branch[i] = "error"
        THEN [raised |-> IF kind = "list" THEN "TypeError" ELSE "KeyError", value |-> <<>>]
        ELSE [raised |-> "", value |-> [i \in 1..n |-> parsed[i].value]]

NoBearing == 16

\* the dictionary compass of the named module, its values in units of 0.125
\* (None is NoBearing)
compass(copy) ==
    IF copy = "combineboston"
    THEN [North |-> 0, South |-> 8, East |-> 4, West |-> 12,
          NE |-> 2, SE |-> 6, SW |-> 10, NW |-> 14,
          NNE |-> 1, ENE |-> 3, ESE |-> 5, SSE |-> 7,
          SSW |-> 9, WSW |-> 11, WNW |-> 13, NNW |-> 15,
          Variable |-> NoBearing, Calm |-> NoBearing]
    ELSE [North |-> 0, South |-> 8, East |-> 4, West |-> 12,
          NE |-> 2, SE |-> 6, SW |-> 10, NW |-> 14,
          NWE |-> 1, ENE |-> 3, ESE |-> 5, SSE |-> 7,
          SSW |-> 9, WSW |-> 11, WNW |-> 13, NNW |-> 15,
          Variable |-> NoBearing, Calm |-> NoBearing]

ZeroWind == [one |-> 0, sin22 |-> 0, sin45 |-> 0, sin67 |-> 0, den |-> 1]

\* np.sin(eighths * 0.125 * np.pi) * speed
SinTimes(eighths, speed) ==
    LET k    == eighths % 16
        sign == IF k < 8 THEN 1 ELSE -1
        m    == k % 8
    IN  [one   |-> IF m = 4 THEN sign * speed[1] ELSE 0,
         sin22 |-> IF m \in {1, 7} THEN sign * speed[1] ELSE 0,
         sin45 |-> IF m \in {2, 6} THEN sign * speed[1] ELSE 0,
         sin67 |-> IF m \in {3, 5} THEN sign * speed[1] ELSE 0,
         den   |-> speed[2]]

\* np.cos(eighths * 0.125 * np.pi) * speed
CosTimes(eighths, speed) == SinTimes(eighths + 4, speed)

WindAdd(a, b) ==
    [one   |-> a.one * b.den + b.one * a.den,
     sin22 |-> a.sin22 * b.den + b.sin22 * a.den,
     sin45 |-> a.sin45 * b.den + b.sin45 * a.den,
     sin67 |-> a.sin67 * b.den + b.sin67 * a.den,
     den   |-> a.den * b.den]

WindEq(a, b) ==
    /\ a.one * b.den = b.one * a.den
    /\ a.sin22 * b.den = b.sin22 * a.den
    /\ a.sin45 * b.den = b.sin45 * a.den
    /\ a.sin67 * b.den = b.sin67 * a.den

RECURSIVE WindSum(_)
WindSum(winds) == IF winds = <<>> THEN ZeroWind ELSE WindAdd(Head(winds), WindSum(Tail(winds)))

\* np.mean of a non-empty list of wind components
WindMean(winds) == [WindSum(winds) EXCEPT !.den = @ * Len(winds)]

\* one pass of the loop of get_wind_vector: the pair appended to east_winds and
\* north_winds; compass[direction] of a missing key is a KeyError
WindOf(copy, speed, direction) ==
    IF direction \notin DOMAIN compass(copy)
    THEN [raised |-> "KeyError", east |-> ZeroWind, north |-> ZeroWind]
    ELSE IF compass(copy)[direction] # NoBearing
    THEN [raised |-> "",
          east  |-> SinTimes(compass(copy)[direction], speed),
          north |-> CosTimes(compass(copy)[direction], speed)]
    ELSE [raised |-> "", east |-> ZeroWind, north |-> ZeroWind]

\* get_wind_vector(windspeeds, winddirections) of the named module, for
\* arguments of one length
get_wind_vector(copy, kind, speeds, directions) ==
    LET parsed == get_weather_array(copy, kind, speeds, mph)
    IN  IF parsed.raised # "" THEN [raised |-> parsed.raised, value |-> <<>>]
        ELSE LET winds == [i \in 1..Len(speeds) |-> WindOf(copy, parsed.value[i], directions[i])]
             IN  IF \E i \in 1..Len(speeds) : winds[i].raised # ""
                 THEN [raised |-> "KeyError", value |-> <<>>]
                 ELSE [raised |-> "",
                       value  |-> <<WindMean([i \in 1..Len(speeds) |-> winds[i].east]),
                                    WindMean([i \in 1..Len(speeds) |-> winds[i].north])>>]

MaxObservations == 2

\* the 16-point compass clockwise from North
Points16 == <<"North", "NNE", "NE", "ENE", "East", "ESE", "SE", "SSE",
              "South", "SSW", "SW", "WSW", "West", "WNW", "NW", "NNW">>

WindDirs == {Points16[k] : k \in 1..16} \cup {"Variable", "Calm"}

WindSpeedStrings ==
    {<<"1", "0", ".", "0", "m", "p", "h">>, <<"5", ".", "8", "m", "p", "h">>,
     <<"C", "a", "l", "m">>, <<"-">>}

InitWind ==
    /\ wind_copy \in Copies
    /\ wind_kind \in {"list", "Series"}
    /\ \E n \in 1..MaxObservations :
          /\ speed_strings \in [1..n -> WindSpeedStrings]
          /\ winddirections \in [1..n -> WindDirs]
    /\ windspeeds = <<>>
    /\ east_winds = <<>>
    /\ north_winds = <<>>
    /\ wind_result = <<>>
    /\ wind_error = ""
    /\ wind_pc = "parse"
    /\ OthersIdle("wind")

\* windspeeds = get_weather_array(windspeeds, 'mph')
ParseWindspeeds ==
    /\ wind_pc = "parse"
    /\ LET parsed == get_weather_array(wind_copy, wind_kind, speed_strings, mph)
       IN  IF parsed.raised # ""
           THEN /\ wind_error' = parsed.raised
                /\ wind_pc' = "raised"
                /\ UNCHANGED windspeeds
           ELSE /\ windspeeds' = parsed.value
                /\ wind_pc' = "loop"
                /\ UNCHANGED wind_error
    /\ UNCHANGED <<wind_copy, wind_kind, speed_strings, winddirections,
                   east_winds, north_winds, wind_result>>
    /\ UNCHANGED not_wind

\* one pass of: for speed, direction in zip(windspeeds, winddirections)
WindPass ==
    /\ wind_pc = "loop"
    /\ Len(east_winds) < Len(windspeeds)
    /\ LET i    == Len(east_winds) + 1
           wind == WindOf(wind_copy, windspeeds[i], winddirections[i])
       IN  IF wind.raised # ""
           THEN /\ wind_error' = wind.raised
                /\ wind_pc' = "raised"
                /\ UNCHANGED <<east_winds, north_winds>>
           ELSE /\ east_winds' = Append(east_winds, wind.east)
                /\ north_winds' = Append(north_winds, wind.north)
                /\ UNCHANGED <<wind_error, wind_pc>>
    /\ UNCHANGED <<wind_copy, wind_kind, speed_strings, winddirections,
                   windspeeds, wind_result>>
    /\ UNCHANGED not_wind

\* return np.mean(east_winds), np.mean(north_winds)
ReturnWindVector ==
    /\ wind_pc = "loop"
    /\ Len(east_winds) = Len(windspeeds)
    /\ wind_result' = <<WindMean(east_winds), WindMean(north_winds)>>
    /\ wind_pc' = "returned"
    /\ UNCHANGED <<wind_copy, wind_kind, speed_strings, winddirections,
                   windspeeds, east_winds, north_winds, wind_error>>
    /\ UNCHANGED not_wind

NextWind == ParseWindspeeds \/ WindPass \/ ReturnWindVector

SpecWind == InitWind /\ [][NextWind]_vars

\* the bearing of a direction of the 16-point compass, in steps of 22.5
\* degrees clockwise from North
OwnBearing(direction) == (CHOOSE k \in 1..16 : Points16[k] = direction) - 1

\* the speeds get_wind_vector documents ('18.1mph') all carry their unit
SpeedsWithUnit == \A i \in 1..Len(speed_strings) : PySuffix(speed_strings[i], 3) = mph

\* C21 (as claimed): with directions of the 16-point compass, 'Variable' and
\* 'Calm', neither copy of get_wind_vector fails, every compass direction
\* contributes its speed along its own bearing (east = speed * sin, north =
\* speed * cos of k * 22.5 degrees for the k-th point clockwise from North) and
\* 'Variable' and 'Calm' contribute the zero vector.
C21_EveryDirectionAccepted ==
    SpeedsWithUnit =>
        /\ wind_pc # "raised"
        /\ \A i \in 1..Len(east_winds) :
              IF winddirections[i] \in {"Variable", "Calm"}
              THEN WindEq(east_winds[i], ZeroWind) /\ WindEq(north_winds[i], ZeroWind)
              ELSE /\ WindEq(east_winds[i], SinTimes(OwnBearing(winddirections[i]), windspeeds[i]))
                   /\ WindEq(north_winds[i], CosTimes(OwnBearing(winddirections[i]), windspeeds[i]))

-----------------------------------------------------------------------------
(* combineboston.py and matching_estimators.py: fetch_weather_features.     *)
(* A float is the exact rational <<numerator, denominator>>.                *)

RatAdd(a, b) == <<a[1] * b[2] + b[1] * a[2], a[2] * b[2]>>

RECURSIVE RatSum(_)
RatSum(values) == IF values = <<>> THEN <<0, 1>> ELSE RatAdd(Head(values), RatSum(Tail(values)))

\* np.mean of a non-empty list of floats
RatMean(values) == <<RatSum(values)[1], RatSum(values)[2] * Len(values)>>

\* the column of a frame
Column(frame, name) == [i \in 1..Len(frame) |-> frame[i][name]]

\* sum(mask) of a boolean Series: the number of True
CountTrue(mask) == Len(SelectSeq(mask, LAMBDA b : b))

\* sum(subset_df['Events'] == 'Rain') / float(n) in combineboston.py (a float
\* division); sum(...) / n in matching_estimators.py, which is Python 2
\* without true division: the quotient of two integers rounded down
RainHours(copy, rain, n) ==
    IF copy = "combineboston" THEN <<rain, n>> ELSE <<PyDiv(rain, n), 1>>

\* fetch_weather_features from the line after the n == 0 test: the returned
\* tuple (7 values in combineboston.py, 6 in matching_estimators.py)
WeatherFeatures(copy, subset) ==
    LET n         == Len(subset)
        temps     == get_weather_array(copy, "Series", Column(subset, "Temp"), <<"F">>)
        humids    == get_weather_array(copy, "Series", Column(subset, "Humidity"), <<"%">>)
        speeds    == get_weather_array(copy, "Series", Column(subset, "Wind_Speed"), mph)
        vector    == get_wind_vector(copy, "Series", Column(subset, "Wind_Speed"),
                                     Column(subset, "Wind_Dir"))
        isgusty   == CountTrue([i \in 1..n |-> subset[i].Gust_Speed # "-"]) > PyDiv(n, 2)
        rainhours == RainHours(copy, CountTrue([i \in 1..n |-> subset[i].Events = "Rain"]), n)
    IN  IF temps.raised # "" THEN [raised |-> temps.raised, value |-> <<>>]
        ELSE IF humids.raised # "" THEN [raised |-> humids.raised, value |-> <<>>]
        ELSE IF copy = "combineboston" /\ speeds.raised # ""
        THEN [raised |-> speeds.raised, value |-> <<>>]
        ELSE IF vector.raised # "" THEN [raised |-> vector.raised, value |-> <<>>]
        ELSE IF copy = "combineboston"
        THEN [raised |-> "",
              value  |-> <<RatMean(temps.value), RatMean(humids.value), RatMean(speeds.value),
                           vector.value[1], vector.value[2], isgusty, rainhours>>]
        ELSE [raised |-> "",
              value  |-> <<RatMean(temps.value), RatMean(humids.value),
                           vector.value[1], vector.value[2], isgusty, rainhours>>]

MaxWeatherRows == 3

\* the event and year of an observation
WeatherKeys == {<<"boston", 2014>>, <<"boston", 2015>>, <<"chicago", 2014>>}

\* wind speed, wind direction and gust speed of an observation
WeatherWinds ==
    {<<<<"1", "0", ".", "0", "m", "p", "h">>, "North", "-">>,
     <<<<"5", ".", "8", "m", "p", "h">>, "SSW", "25.3mph">>,
     <<<<"C", "a", "l", "m">>, "Calm", "-">>}

WeatherRows ==
    {[marathon |-> key[1], year |-> key[2],
      Temp |-> <<"5", "9", ".", "0", "F">>, Humidity |-> <<"2", "5", "%">>,
      Wind_Speed |-> wind[1], Wind_Dir |-> wind[2], Gust_Speed |-> wind[3],
      Events |-> events] :
        key \in WeatherKeys, wind \in WeatherWinds, events \in {"Rain", "nan"}}

InitWeather ==
    /\ weather_copy \in Copies
    /\ \E n \in 0..MaxWeatherRows : weather_df \in [1..n -> WeatherRows]
    /\ marathon_name = "boston"
    /\ weather_year = 2014
    /\ subset_df = <<>>
    /\ weather_result = <<>>
    /\ weather_error = ""
    /\ weather_pc = "subset"
    /\ OthersIdle("weather")

\* subset_mask = ...; subset_df = weather_df[subset_mask]; n = len(subset_df);
\* if n == 0: return 0, 0, 0, 0, 0, False, 0
SelectSubset ==
    /\ weather_pc = "subset"
    /\ subset_df' = SelectSeq(weather_df,
                              LAMBDA row : row.marathon = marathon_name /\ row.year = weather_year)
    /\ IF Len(subset_df') = 0
       THEN /\ weather_result' = IF weather_copy = "combineboston"
                                 THEN <<<<0, 1>>, <<0, 1>>, <<0, 1>>, ZeroWind, ZeroWind, FALSE, <<0, 1>>>>
                                 ELSE <<<<0, 1>>, <<0, 1>>, ZeroWind, ZeroWind, FALSE, <<0, 1>>>>
            /\ weather_pc' = "returned"
       ELSE /\ weather_pc' = "features"
            /\ UNCHANGED weather_result
    /\ UNCHANGED <<weather_copy, weather_df, marathon_name, weather_year, weather_error>>
    /\ UNCHANGED not_weather

\* avgtemp = ... to the return statement
ComputeFeatures ==
    /\ weather_pc = "features"
    /\ LET features == WeatherFeatures(weather_copy, subset_df)
       IN  IF features.raised # ""
           THEN /\ weather_error' = features.raised
                /\ weather_pc' = "raised"
                /\ UNCHANGED weather_result
           ELSE /\ weather_result' = features.value
                /\ weather_pc' = "returned"
                /\ UNCHANGED weather_error
    /\ UNCHANGED <<weather_copy, weather_df, marathon_name, weather_year, subset_df>>
    /\ UNCHANGED not_weather

NextWeather == SelectSubset \/ ComputeFeatures

SpecWeather == InitWeather /\ [][NextWeather]_vars

\* the observations of weather_df for the event and year asked for
Matching == SelectSeq(weather_df, LAMBDA row : row.marathon = marathon_name /\ row.year = weather_year)

\* the rainy ones among them
Rainy == SelectSeq(Matching, LAMBDA row : row.Events = "Rain")

\* C22 (as claimed): with at least one matching observation, the last value
\* fetch_weather_features returns is (rain observations) / (matching
\* observations), in either module.
C22_LastValueIsRainProportion ==
    (weather_pc = "returned" /\ Len(Matching) > 0) =>
        LET raining == weather_result[Len(weather_result)]
        IN  raining[1] * Len(Matching) = Len(Rainy) * raining[2]

-----------------------------------------------------------------------------
(* marathonlib.py: time_to_minutes(time_string).                            *)

RECURSIVE PySplit(_, _)
\* str.split(sep) for a separator of one character
PySplit(str, sep) ==
    IF \A i \in 1..Len(str) : str[i] # sep THEN <<str>>
    ELSE LET k == CHOOSE i \in 1..Len(str) :
                      str[i] = sep /\ \A j \in 1..(i - 1) : str[j] # sep
         IN  <<SubSeq(str, 1, k - 1)>> \o PySplit(SubSeq(str, k + 1, Len(str)), sep)

\* map(int, time_string.split(':')), a ValueError when a field is no integer
MapInt(fields) ==
    IF \E i \in 1..Len(fields) : PyInt(fields[i]).raised # ""
    THEN [raised |-> "ValueError", value |-> <<>>]
    ELSE [raised |-> "", value |-> [i \in 1..Len(fields) |-> PyInt(fields[i]).value]]

\* unit/60. + minutes*60 ; minutes is the integer 0 before the first pass
NextMinutes(unit, mins) ==
    DoubleAdd(DoubleOfRatio(unit, 60), DoubleTimesInt(mins, 60))

MaxHours == 3

\* the decimal digits of a number below 100, one digit or two
OneDigit(k)  == <<Digits[k + 1]>>
TwoDigits(k) == <<Digits[(k \div 10) + 1], Digits[(k % 10) + 1]>>

SecondValues == {0, 1, 30, 45, 59}

\* 'h:mm:ss'
ThreeFieldStrings ==
    {OneDigit(h) \o <<":">> \o TwoDigits(mm) \o <<":">> \o TwoDigits(ss) :
        h \in 0..MaxHours, mm \in 0..59, ss \in SecondValues}

\* 'a:b'
TwoFieldStrings ==
    {(IF a < 10 THEN OneDigit(a) ELSE TwoDigits(a)) \o <<":">> \o TwoDigits(b) :
        a \in {0, 1, 23, 31, 59}, b \in SecondValues}

\* strings with a field that is no integer
NonNumericStrings ==
    {<<"h", "o", "u", "r">>, <<>>, <<"1", ":", "x", "x", ":", "0", "0">>,
     <<"1", ":", ":", "3">>, <<"-">>}

\* float arguments: 83.75, 31.000000000000004, 0.0 and NaN
FloatArguments ==
    {DoubleOfRatio(8375, 100), NextMinutes(0, NextMinutes(31, NextMinutes(0, DoubleZero))),
     DoubleZero, DoubleNaN}

TimeArguments ==
    {[type |-> "str", text |-> s, value |-> DoubleZero] :
        s \in ThreeFieldStrings \cup TwoFieldStrings \cup NonNumericStrings}
    \cup {[type |-> "float", text |-> <<>>, value |-> x] : x \in FloatArguments}
    \cup {[type |-> "float64", text |-> <<>>, value |-> x] : x \in FloatArguments}

InitTime ==
    /\ time_string \in TimeArguments
    /\ units = <<>>
    /\ unit_ix = 0
    /\ minutes = DoubleZero
    /\ time_result = <<>>
    /\ time_error = ""
    /\ time_pc = "type"
    /\ OthersIdle("time")

\* if type(time_string) in (float, float64): return time_string
ReturnFloat ==
    /\ time_pc = "type"
    /\ time_string.type \in {"float", "float64"}
    /\ time_result' = <<time_string.value>>
    /\ time_pc' = "returned"
    /\ UNCHANGED <<time_string, units, unit_ix, minutes, time_error>>
    /\ UNCHANGED not_time

\* try: units = map(int, time_string.split(':'))
\* except ValueError: units = [0]
\* minutes = 0
SplitUnits ==
    /\ time_pc = "type"
    /\ time_string.type = "str"
    /\ LET parsed == MapInt(PySplit(time_string.text, ":"))
       IN  units' = IF parsed.raised = "ValueError" THEN <<0>> ELSE parsed.value
    /\ minutes' = DoubleZero
    /\ unit_ix' = 0
    /\ time_pc' = "loop"
    /\ UNCHANGED <<time_string, time_result, time_error>>
    /\ UNCHANGED not_time

\* one pass of: for unit in units: minutes = unit/60. + minutes*60
AddUnit ==
    /\ time_pc = "loop"
    /\ unit_ix < Len(units)
    /\ minutes' = NextMinutes(units[unit_ix + 1], minutes)
    /\ unit_ix' = unit_ix + 1
    /\ UNCHANGED <<time_string, units, time_result, time_error, time_pc>>
    /\ UNCHANGED not_time

\* return minutes
ReturnMinutes ==
    /\ time_pc = "loop"
    /\ unit_ix = Len(units)
    /\ time_result' = <<minutes>>
    /\ time_pc' = "returned"
    /\ UNCHANGED <<time_string, units, unit_ix, minutes, time_error>>
    /\ UNCHANGED not_time

NextTime == ReturnFloat \/ SplitUnits \/ AddUnit \/ ReturnMinutes

SpecTime == InitTime /\ [][NextTime]_vars

\* the double nearest to a whole number of seconds taken as minutes
NearestMinutes(seconds) == DoubleOfRatio(seconds, 60)

\* whole + sixtieths/60. as Python evaluates it
EvaluatedMinutes(whole, sixtieths) ==
    DoubleAdd(DoubleOfInt(whole), DoubleOfRatio(sixtieths, 60))

\* C23 (as claimed): time_to_minutes returns a float argument unchanged, 0.0
\* for a string with a field that is no integer, h*60 + mm + ss/60 minutes for
\* 'h:mm:ss' and a + b/60 minutes for 'a:b' (the double nearest to that value,
\* or the value of the expression evaluated in doubles).
C23_StringToMinutes ==
    time_pc = "returned" =>
        IF time_string.type # "str" THEN time_result[1] = time_string.value
        ELSE LET parsed == MapInt(PySplit(time_string.text, ":"))
                 u      == parsed.value
             IN  IF parsed.raised # "" THEN DoubleEq(time_result[1], DoubleZero)
                 ELSE /\ Len(u) = 3 =>
                            \/ DoubleEq(time_result[1], NearestMinutes(3600 * u[1] + 60 * u[2] + u[3]))
                            \/ DoubleEq(time_result[1], EvaluatedMinutes(60 * u[1] + u[2], u[3]))
                      /\ Len(u) = 2 =>
                            \/ DoubleEq(time_result[1], NearestMinutes(60 * u[1] + u[2]))
                            \/ DoubleEq(time_result[1], EvaluatedMinutes(u[1], u[2]))

====
